---- MODULE Spec2Model ----
(***************************************************************************)
(* A model of the Formality kernel: the term algebra, the term reducer,    *)
(* the equality / unification engine, the bidirectional type checker, the  *)
(* affinity analysis, the graph runtime (runtime-fast) and the             *)
(* interaction-net runtime.                                                *)
(*                                                                         *)
(* Terms are records carrying the constructor name in `tag`.  JavaScript   *)
(* null is the record NullT, undefined is the record Undef.  Numbers are   *)
(* JavaScript numbers restricted to the integers TLC can represent; the    *)
(* inputs are drawn from small words, so every intermediate value stays in *)
(* that range.                                                             *)
(***************************************************************************)
EXTENDS Integers, Sequences, FiniteSets, TLC

VARIABLES
    phase,      \* which component is running and where it stands
    input,      \* the input of the running scenario
    output,     \* the result of the last operation applied
    mem,        \* graph runtime: memory (sequence of pointers, address 0 first)
    root,       \* graph runtime: entry pointer
    back,       \* graph runtime: the back stack of <<pointer, side, depth>>
    collect_length, \* graph runtime: memory size that triggers a collection
    stats,      \* graph runtime: reduction costs [beta, copy]
    holes,      \* equality / type checker: the hole registry
    defs,       \* type checker: the definition table
    net,        \* interaction net: [nodes, freed, redex, find_redex]
    warp,       \* lazy scheduler: ports to come back to
    prev,       \* lazy scheduler: the port the walk comes from
    next        \* lazy scheduler: the port the walk looks at

vars == <<phase, input, output, mem, root, back, collect_length, stats, holes, defs, net, warp, prev, next>>

(***************************************************************************)
(* Term constructors (core language)                                       *)
(***************************************************************************)
NullT == [tag |-> "null"]
Undef == [tag |-> "undefined"]

Var(index) == [tag |-> "Var", index |-> index]
Typ == [tag |-> "Typ"]
All(name, bind, body, eras) ==
    [tag |-> "All", name |-> name, bind |-> bind, body |-> body, eras |-> eras]
Lam(name, bind, body, eras) ==
    [tag |-> "Lam", name |-> name, bind |-> bind, body |-> body, eras |-> eras]
App(func, argm, eras) == [tag |-> "App", func |-> func, argm |-> argm, eras |-> eras]
Slf(name, type) == [tag |-> "Slf", name |-> name, type |-> type]
New(type, expr) == [tag |-> "New", type |-> type, expr |-> expr]
Use(expr) == [tag |-> "Use", expr |-> expr]
Num == [tag |-> "Num"]
Val(numb) == [tag |-> "Val", numb |-> numb]
Op1(func, num0, num1) == [tag |-> "Op1", func |-> func, num0 |-> num0, num1 |-> num1]
Op2(func, num0, num1) == [tag |-> "Op2", func |-> func, num0 |-> num0, num1 |-> num1]
Ite(cond, if_t, if_f) == [tag |-> "Ite", cond |-> cond, if_t |-> if_t, if_f |-> if_f]
Ann(type, expr, done) == [tag |-> "Ann", type |-> type, expr |-> expr, done |-> done]
Log(msge, expr) == [tag |-> "Log", msge |-> msge, expr |-> expr]
Hol(name) == [tag |-> "Hol", name |-> name]
Ref(name, eras) == [tag |-> "Ref", name |-> name, eras |-> eras]

\* a hash that takes the name of a Lam binder in
RECURSIVE Hash_named(_)
Hash_named(t) ==
    CASE t.tag = "Var" -> "^" \o ToString(t.index)
      [] t.tag = "Typ" -> "ty"
      [] t.tag = "All" -> "al" \o (IF t.eras THEN "~" ELSE "") \o Hash_named(t.bind) \o Hash_named(t.body)
      [] t.tag = "Lam" -> "lm" \o t.name \o (IF t.eras THEN "~" ELSE "") \o Hash_named(t.body)
      [] t.tag = "App" -> "ap" \o (IF t.eras THEN "~" ELSE "") \o Hash_named(t.func) \o Hash_named(t.argm)
      [] t.tag = "Slf" -> "sf" \o Hash_named(t.type)
      [] t.tag = "New" -> Hash_named(t.expr)
      [] t.tag = "Use" -> Hash_named(t.expr)
      [] t.tag = "Num" -> "wd"
      [] t.tag = "Val" -> "[" \o ToString(t.numb) \o "]"
      [] t.tag = "Op1" -> "o1" \o t.func \o Hash_named(t.num0) \o Hash_named(t.num1)
      [] t.tag = "Op2" -> "o2" \o t.func \o Hash_named(t.num0) \o Hash_named(t.num1)
      [] t.tag = "Ite" -> "ie" \o Hash_named(t.cond) \o Hash_named(t.if_t) \o Hash_named(t.if_f)
      [] t.tag = "Ann" -> Hash_named(t.expr)
      [] t.tag = "Log" -> Hash_named(t.expr)
      [] t.tag = "Hol" -> "{?" \o t.name \o "?}"
      [] t.tag = "Ref" -> "{" \o t.name \o "}"

\* The structural hash a constructor stores in term[2] while MEMO is true.
RECURSIVE Hash(_)
Hash(t) ==
    CASE t.tag = "Var" -> "^" \o ToString(t.index)
      [] t.tag = "Typ" -> "ty"
      [] t.tag = "All" -> "al" \o (IF t.eras THEN "~" ELSE "") \o Hash(t.bind) \o Hash(t.body)
      [] t.tag = "Lam" -> "lm" \o (IF t.eras THEN "~" ELSE "") \o Hash(t.body)
      [] t.tag = "App" -> "ap" \o (IF t.eras THEN "~" ELSE "") \o Hash(t.func) \o Hash(t.argm)
      [] t.tag = "Slf" -> "sf" \o Hash(t.type)
      [] t.tag = "New" -> Hash(t.expr)
      [] t.tag = "Use" -> Hash(t.expr)
      [] t.tag = "Num" -> "wd"
      [] t.tag = "Val" -> "[" \o ToString(t.numb) \o "]"
      [] t.tag = "Op1" -> "o1" \o t.func \o Hash(t.num0) \o Hash(t.num1)
      [] t.tag = "Op2" -> "o2" \o t.func \o Hash(t.num0) \o Hash(t.num1)
      [] t.tag = "Ite" -> "ie" \o Hash(t.cond) \o Hash(t.if_t) \o Hash(t.if_f)
      [] t.tag = "Ann" -> Hash(t.expr)
      [] t.tag = "Log" -> Hash(t.expr)
      [] t.tag = "Hol" -> "{?" \o t.name \o "?}"
      [] t.tag = "Ref" -> "{" \o t.name \o "}"

(***************************************************************************)
(* Substitution                                                            *)
(***************************************************************************)
\* shift_index with the cutoff taken one too high
shift_index_above(index, inc, depth) == IF index <= depth THEN index ELSE index + inc

\* shift_index that moves a variable by one whatever the increment
shift_index_by_one(index, inc, depth) == IF index < depth THEN index ELSE index + 1

\* the index shift gives a variable: those below the cutoff stay
shift_index(index, inc, depth) == IF index < depth THEN index ELSE index + inc

RECURSIVE shift(_, _, _)
shift(term, inc, depth) ==
    CASE term.tag = "null" -> NullT
      [] term.tag = "Var" -> Var(shift_index(term.index, inc, depth))
      [] term.tag = "Typ" -> Typ
      [] term.tag = "All" ->
            All(term.name, shift(term.bind, inc, depth),
                shift(term.body, inc, depth + 1), term.eras)
      [] term.tag = "Lam" ->
            Lam(term.name, shift(term.bind, inc, depth),
                shift(term.body, inc, depth + 1), term.eras)
      [] term.tag = "App" ->
            App(shift(term.func, inc, depth), shift(term.argm, inc, depth), term.eras)
      [] term.tag = "Num" -> Num
      [] term.tag = "Val" -> Val(term.numb)
      [] term.tag = "Op1" ->
            Op1(term.func, shift(term.num0, inc, depth), shift(term.num1, inc, depth))
      [] term.tag = "Op2" ->
            Op2(term.func, shift(term.num0, inc, depth), shift(term.num1, inc, depth))
      [] term.tag = "Ite" ->
            Ite(shift(term.cond, inc, depth), shift(term.if_t, inc, depth),
                shift(term.if_f, inc, depth))
      [] term.tag = "Slf" -> Slf(term.name, shift(term.type, inc, depth + 1))
      [] term.tag = "New" -> New(shift(term.type, inc, depth), shift(term.expr, inc, depth))
      [] term.tag = "Use" -> Use(shift(term.expr, inc, depth))
      [] term.tag = "Ann" ->
            Ann(shift(term.type, inc, depth), shift(term.expr, inc, depth), term.done)
      [] term.tag = "Log" -> Log(shift(term.msge, inc, depth), shift(term.expr, inc, depth))
      [] term.tag = "Hol" -> Hol(term.name)
      [] term.tag = "Ref" -> Ref(term.name, term.eras)

RECURSIVE subst(_, _, _)
subst(term, val, depth) ==
    CASE term.tag = "null" -> NullT
      [] term.tag = "Var" ->
            IF depth = term.index THEN val
            ELSE Var(term.index - (IF term.index > depth THEN 1 ELSE 0))
      [] term.tag = "Typ" -> Typ
      [] term.tag = "All" ->
            All(term.name, subst(term.bind, val, depth),
                subst(term.body, shift(val, 1, 0), depth + 1), term.eras)
      [] term.tag = "Lam" ->
            Lam(term.name, subst(term.bind, val, depth),
                subst(term.body, shift(val, 1, 0), depth + 1), term.eras)
      [] term.tag = "App" ->
            App(subst(term.func, val, depth), subst(term.argm, val, depth), term.eras)
      [] term.tag = "Num" -> Num
      [] term.tag = "Val" -> Val(term.numb)
      [] term.tag = "Op1" ->
            Op1(term.func, subst(term.num0, val, depth), subst(term.num1, val, depth))
      [] term.tag = "Op2" ->
            Op2(term.func, subst(term.num0, val, depth), subst(term.num1, val, depth))
      [] term.tag = "Ite" ->
            Ite(subst(term.cond, val, depth), subst(term.if_t, val, depth),
                subst(term.if_f, val, depth))
      [] term.tag = "Slf" -> Slf(term.name, subst(term.type, shift(val, 1, 0), depth + 1))
      [] term.tag = "New" -> New(subst(term.type, val, depth), subst(term.expr, val, depth))
      [] term.tag = "Use" -> Use(subst(term.expr, val, depth))
      [] term.tag = "Ann" ->
            Ann(subst(term.type, val, depth), subst(term.expr, val, depth), term.done)
      [] term.tag = "Log" -> Log(subst(term.msge, val, depth), subst(term.expr, val, depth))
      [] term.tag = "Hol" -> Hol(term.name)
      [] term.tag = "Ref" -> Ref(term.name, term.eras)

\* erase that removes an erased binder without erasing its body
RECURSIVE erase_binder_only(_)
erase_binder_only(term) ==
    CASE term.tag = "Var" -> Var(term.index)
      [] term.tag = "Typ" -> Typ
      [] term.tag = "All" -> All(term.name, erase_binder_only(term.bind), erase_binder_only(term.body), term.eras)
      [] term.tag = "Lam" ->
            IF term.eras THEN subst(term.body, Hol("<erased>"), 0)
            ELSE Lam(term.name, NullT, erase_binder_only(term.body), term.eras)
      [] term.tag = "App" ->
            IF term.eras THEN erase_binder_only(term.func)
            ELSE App(erase_binder_only(term.func), erase_binder_only(term.argm), term.eras)
      [] term.tag = "Num" -> Num
      [] term.tag = "Val" -> Val(term.numb)
      [] term.tag = "Op1" -> Op1(term.func, erase_binder_only(term.num0), erase_binder_only(term.num1))
      [] term.tag = "Op2" -> Op2(term.func, erase_binder_only(term.num0), erase_binder_only(term.num1))
      [] term.tag = "Ite" -> Ite(erase_binder_only(term.cond), erase_binder_only(term.if_t), erase_binder_only(term.if_f))
      [] term.tag = "Slf" -> Slf(term.name, erase_binder_only(term.type))
      [] term.tag = "New" -> erase_binder_only(term.expr)
      [] term.tag = "Use" -> erase_binder_only(term.expr)
      [] term.tag = "Ann" -> erase_binder_only(term.expr)
      [] term.tag = "Log" -> Log(erase_binder_only(term.msge), erase_binder_only(term.expr))
      [] term.tag = "Hol" -> Hol(term.name)
      [] term.tag = "Ref" -> Ref(term.name, TRUE)

RECURSIVE erase(_)
erase(term) ==
    CASE term.tag = "Var" -> Var(term.index)
      [] term.tag = "Typ" -> Typ
      [] term.tag = "All" -> All(term.name, erase(term.bind), erase(term.body), term.eras)
      [] term.tag = "Lam" ->
            IF term.eras THEN erase(subst(term.body, Hol("<erased>"), 0))
            ELSE Lam(term.name, NullT, erase(term.body), term.eras)
      [] term.tag = "App" ->
            IF term.eras THEN erase(term.func)
            ELSE App(erase(term.func), erase(term.argm), term.eras)
      [] term.tag = "Num" -> Num
      [] term.tag = "Val" -> Val(term.numb)
      [] term.tag = "Op1" -> Op1(term.func, erase(term.num0), erase(term.num1))
      [] term.tag = "Op2" -> Op2(term.func, erase(term.num0), erase(term.num1))
      [] term.tag = "Ite" -> Ite(erase(term.cond), erase(term.if_t), erase(term.if_f))
      [] term.tag = "Slf" -> Slf(term.name, erase(term.type))
      [] term.tag = "New" -> erase(term.expr)
      [] term.tag = "Use" -> erase(term.expr)
      [] term.tag = "Ann" -> erase(term.expr)
      [] term.tag = "Log" -> Log(erase(term.msge), erase(term.expr))
      [] term.tag = "Hol" -> Hol(term.name)
      [] term.tag = "Ref" -> Ref(term.name, TRUE)

(***************************************************************************)
(* Machine-word arithmetic as JavaScript computes it.  Bitwise operators   *)
(* work on the two's complement digits of their operands.  A number is an  *)
(* integer of the checker, which ends at 2^31 - 1; the unsigned words from *)
(* 2^31 to 2^32 - 1 are the records Wide(x), x = word - 2^32 in            *)
(* -2^31..-1.                                                              *)
(***************************************************************************)
Wide(x) == [wide |-> x]
IsWide(v) == Head(ToString(v)) = "["

\* the operand conversion of & | ^: the low 32 bits, read as a signed integer
ToInt32(v) == IF IsWide(v) THEN v.wide ELSE v

RECURSIVE Pow(_, _)
Pow(a, b) == IF b = 0 THEN 1 ELSE a * Pow(a, b - 1)

\* f is "and", "or" or "xor"; x and y are signed 32-bit integers
RECURSIVE BitOp(_, _, _)
BitOp(f, x, y) ==
    IF x \in {0, -1} /\ y \in {0, -1}
    THEN LET bx == (x = -1)
             by == (y = -1)
             r  == CASE f = "and" -> bx /\ by
                     [] f = "or"  -> bx \/ by
                     [] f = "xor" -> bx # by
         IN  IF r THEN -1 ELSE 0
    ELSE LET bx == (x % 2 = 1)
             by == (y % 2 = 1)
             r  == CASE f = "and" -> bx /\ by
                     [] f = "or"  -> bx \/ by
                     [] f = "xor" -> bx # by
         IN  2 * BitOp(f, x \div 2, y \div 2) + (IF r THEN 1 ELSE 0)

\* x >>> 0 : reinterpret a signed 32-bit integer as unsigned
ToUint32(x) == IF x >= 0 THEN x ELSE Wide(x)

\* JavaScript's x / y and x % y on integers (y divides x, resp. x >= 0 < y)
JsDiv(x, y) == x \div y
JsMod(x, y) == IF x >= 0 THEN x % y ELSE -((-x) % y)

\* the numeric rule of reduce.op1: num0 `func` num1
op1_numb(func, n0, n1) ==
    CASE func = ".+."   -> n0 + n1
      [] func = ".-."   -> n0 - n1
      [] func = ".*."   -> n0 * n1
      [] func = "./."   -> JsDiv(n0, n1)
      [] func = ".%."   -> JsMod(n0, n1)
      [] func = ".**."  -> Pow(n0, n1)
      [] func = ".&."   -> ToUint32(BitOp("and", ToInt32(n0), ToInt32(n1)))
      [] func = ".|."   -> ToUint32(BitOp("or", ToInt32(n0), ToInt32(n1)))
      [] func = ".^."   -> ToUint32(BitOp("xor", ToInt32(n0), ToInt32(n1)))
      [] func = ".~."   -> (-n1) - 1
      [] func = ".>>>." -> ToUint32(n0) \div Pow(2, n1 % 32)
      [] func = ".<<."  -> n0 * Pow(2, n1 % 32)
      [] func = ".>."   -> IF n0 > n1 THEN 1 ELSE 0
      [] func = ".<."   -> IF n0 < n1 THEN 1 ELSE 0
      [] func = ".==."  -> IF n0 = n1 THEN 1 ELSE 0

(***************************************************************************)
(* The term reducer: unquote to a higher-order value, reduce, quote back.  *)
(* A host closure `x => unquote(body, names_ext(x, null, names))` is the   *)
(* record UqClo(body, names); `x => weak_reduce(f(x), names_ext(x, n,      *)
(* names))` is RdClo(f, names).  names is the list of bound values,        *)
(* innermost first.                                                        *)
(***************************************************************************)
UqClo(body, names) == [clo |-> "unquote", body |-> body, names |-> names]
RdClo(body, names) == [clo |-> "reduce", body |-> body, names |-> names]

names_new == <<>>
names_ext(bind, rest) == <<bind>> \o rest
names_len(names) == Len(names)
\* names_get walks i links down the list, none when i is not positive
names_var(i, names) ==
    LET k == IF i < 0 THEN 0 ELSE i
    IN  IF k < Len(names) THEN names[k + 1] ELSE Var(Len(names) - i - 1)

\* options of reduce; defs is carried along with them
ReduceOpts(d, w, h, dp) ==
    [defs |-> d, weak |-> w, holes |-> h, depth |-> dp,
     no_app |-> FALSE, no_ref |-> FALSE, no_op1 |-> FALSE, no_op2 |-> FALSE,
     no_use |-> FALSE, no_ann |-> FALSE, no_ite |-> FALSE, no_hol |-> FALSE]

RECURSIVE unquote(_, _)
unquote(term, names) ==
    CASE term.tag = "Var" -> names_var(term.index, names)
      [] term.tag = "Typ" -> Typ
      [] term.tag = "All" ->
            All(term.name, unquote(term.bind, names), UqClo(term.body, names), term.eras)
      [] term.tag = "Lam" ->
            Lam(term.name,
                IF term.bind = NullT THEN NullT ELSE unquote(term.bind, names),
                UqClo(term.body, names), term.eras)
      [] term.tag = "App" ->
            App(unquote(term.func, names), unquote(term.argm, names), term.eras)
      [] term.tag = "Num" -> Num
      [] term.tag = "Val" -> Val(term.numb)
      [] term.tag = "Op1" ->
            Op1(term.func, unquote(term.num0, names), unquote(term.num1, names))
      [] term.tag = "Op2" ->
            Op2(term.func, unquote(term.num0, names), unquote(term.num1, names))
      [] term.tag = "Ite" ->
            Ite(unquote(term.cond, names), unquote(term.if_t, names),
                unquote(term.if_f, names))
      [] term.tag = "Slf" -> Slf(term.name, UqClo(term.type, names))
      [] term.tag = "New" -> New(unquote(term.type, names), unquote(term.expr, names))
      [] term.tag = "Use" -> Use(unquote(term.expr, names))
      [] term.tag = "Ann" ->
            Ann(unquote(term.type, names), unquote(term.expr, names), term.done)
      [] term.tag = "Log" -> Log(unquote(term.msge, names), unquote(term.expr, names))
      [] term.tag = "Hol" -> Hol(term.name)
      [] term.tag = "Ref" -> Ref(term.name, term.eras)

RECURSIVE reduce_val(_, _, _)
RECURSIVE call(_, _, _)
RECURSIVE weak_reduce(_, _, _)
RECURSIVE apply(_, _, _, _, _)
RECURSIVE op1(_, _, _, _, _)
RECURSIVE op2(_, _, _, _, _)
RECURSIVE if_then_else(_, _, _, _, _)
RECURSIVE dereference(_, _, _)
RECURSIVE unhole(_, _, _)
RECURSIVE use(_, _, _)
RECURSIVE ann(_, _, _, _)
RECURSIVE log(_, _, _, _)

\* applying a host closure to the value x
call(f, x, o) ==
    IF f.clo = "unquote"
    THEN unquote(f.body, names_ext(x, f.names))
    ELSE weak_reduce(call(f.body, x, o), names_ext(x, f.names), o)

weak_reduce(term, names, o) == IF o.weak THEN term ELSE reduce_val(term, names, o)

apply(func, argm, eras, names, o) ==
    LET f == reduce_val(func, names, o)
    IN  IF ~o.no_app /\ f.tag = "Lam"
        THEN reduce_val(call(f.body, argm, o), names, o)
        ELSE App(f, weak_reduce(argm, names, o), eras)

op1(func, num0, num1, names, o) ==
    LET n0 == reduce_val(num0, names, o)
    IN  IF ~o.no_op1 /\ n0.tag = "Val" /\ num1.tag = "Val"
        THEN Val(op1_numb(func, n0.numb, num1.numb))
        ELSE Op1(func, n0, num1)

op2(func, num0, num1, names, o) ==
    LET n1 == reduce_val(num1, names, o)
    IN  IF ~o.no_op2 /\ n1.tag = "Val"
        THEN reduce_val(Op1(func, num0, n1), names, o)
        ELSE Op2(func, weak_reduce(num0, names, o), n1)

if_then_else(cond, if_t, if_f, names, o) ==
    LET c == reduce_val(cond, names, o)
    IN  IF ~o.no_ite /\ c.tag = "Val"
        THEN IF c.numb > 0 THEN reduce_val(if_t, names, o) ELSE reduce_val(if_f, names, o)
        ELSE Ite(c, weak_reduce(if_t, names, o), weak_reduce(if_f, names, o))

dereference(name, eras, o) ==
    IF ~o.no_ref /\ name \in DOMAIN o.defs
    THEN LET value == IF eras THEN erase(o.defs[name]) ELSE o.defs[name]
         IN  reduce_val(unquote(value, names_new), names_new, o)
    ELSE Ref(name, eras)

unhole(name, names, o) ==
    IF ~o.no_hol /\ name \in DOMAIN o.holes
       /\ o.holes[name].value.tag \notin {"undefined", "null"}
    THEN LET depth == o.depth + names_len(names)
             value == shift(o.holes[name].value, depth - o.holes[name].depth, 0)
         IN  reduce_val(unquote(value, names), names, o)
    ELSE Hol(name)

use(expr, names, o) ==
    LET e == reduce_val(expr, names, o)
    IN  IF ~o.no_use /\ e.tag = "New" THEN reduce_val(e.expr, names, o) ELSE Use(e)

\* ann without the reduction of the annotated expression
ann_unreduced(type, expr, names, o) == expr

ann(type, expr, names, o) ==
    LET e == reduce_val(expr, names, o)
    IN  IF ~o.no_ann THEN e ELSE Ann(weak_reduce(type, names, o), e, FALSE)

\* the message is reduced and, with opts.logs, printed; the value is the body's
log(msge, expr, names, o) == reduce_val(expr, names, o)

reduce_val(term, names, o) ==
    CASE term.tag = "Var" -> Var(term.index)
      [] term.tag = "Typ" -> Typ
      [] term.tag = "All" ->
            All(term.name, weak_reduce(term.bind, names, o), RdClo(term.body, names),
                term.eras)
      [] term.tag = "Lam" ->
            Lam(term.name,
                IF term.bind = NullT THEN NullT ELSE weak_reduce(term.bind, names, o),
                RdClo(term.body, names), term.eras)
      [] term.tag = "App" -> apply(term.func, term.argm, term.eras, names, o)
      [] term.tag = "Num" -> Num
      [] term.tag = "Val" -> Val(term.numb)
      [] term.tag = "Op1" -> op1(term.func, term.num0, term.num1, names, o)
      [] term.tag = "Op2" -> op2(term.func, term.num0, term.num1, names, o)
      [] term.tag = "Ite" -> if_then_else(term.cond, term.if_t, term.if_f, names, o)
      [] term.tag = "Slf" -> Slf(term.name, RdClo(term.type, names))
      [] term.tag = "New" ->
            New(weak_reduce(term.type, names, o), weak_reduce(term.expr, names, o))
      [] term.tag = "Use" -> use(term.expr, names, o)
      [] term.tag = "Ann" -> ann(term.type, term.expr, names, o)
      [] term.tag = "Log" -> log(term.msge, term.expr, names, o)
      [] term.tag = "Hol" -> unhole(term.name, names, o)
      [] term.tag = "Ref" -> dereference(term.name, term.eras, o)

RECURSIVE quote(_, _, _)
quote(term, depth, o) ==
    CASE term.tag = "Var" -> Var(depth - 1 - term.index)
      [] term.tag = "Typ" -> Typ
      [] term.tag = "All" ->
            All(term.name, quote(term.bind, depth, o),
                quote(call(term.body, Var(depth), o), depth + 1, o), term.eras)
      [] term.tag = "Lam" ->
            Lam(term.name,
                IF term.bind = NullT THEN NullT ELSE quote(term.bind, depth, o),
                quote(call(term.body, Var(depth), o), depth + 1, o), term.eras)
      [] term.tag = "App" ->
            App(quote(term.func, depth, o), quote(term.argm, depth, o), term.eras)
      [] term.tag = "Num" -> Num
      [] term.tag = "Val" -> Val(term.numb)
      [] term.tag = "Op1" ->
            Op1(term.func, quote(term.num0, depth, o), quote(term.num1, depth, o))
      [] term.tag = "Op2" ->
            Op2(term.func, quote(term.num0, depth, o), quote(term.num1, depth, o))
      [] term.tag = "Ite" ->
            Ite(quote(term.cond, depth, o), quote(term.if_t, depth, o),
                quote(term.if_f, depth, o))
      [] term.tag = "Slf" ->
            Slf(term.name, quote(call(term.type, Var(depth), o), depth + 1, o))
      [] term.tag = "New" -> New(quote(term.type, depth, o), quote(term.expr, depth, o))
      [] term.tag = "Use" -> Use(quote(term.expr, depth, o))
      [] term.tag = "Ann" ->
            Ann(quote(term.type, depth, o), quote(term.expr, depth, o), term.done)
      [] term.tag = "Log" -> Log(quote(term.msge, depth, o), quote(term.expr, depth, o))
      [] term.tag = "Hol" -> Hol(term.name)
      [] term.tag = "Ref" -> Ref(term.name, term.eras)

\* reduce(term, defs, opts)
reduce(term, o) == quote(reduce_val(unquote(term, names_new), names_new, o), 0, o)

\* full normalisation with every reduction class enabled
normal(term, d) == reduce(term, ReduceOpts(d, FALSE, <<>>, 0))

(***************************************************************************)
(* Equality and unification.  The search tree has the nodes Eqs, Bop and   *)
(* the leaf Val(true|false), here Leaf.  The engine writes the hole        *)
(* registry while it searches, so every operator takes and returns the     *)
(* session state S = [holes, writes]; writes lists each assignment to a    *)
(* hole's value in the order the code performs it.                         *)
(***************************************************************************)
Eqs(a, b, d) == [tag |-> "Eqs", a |-> a, b |-> b, d |-> d]
Bop(v, x, y) == [tag |-> "Bop", v |-> v, x |-> x, y |-> y]
And(x, y) == Bop(FALSE, x, y)
Leaf(v) == [tag |-> "Val", v |-> v]

\* opts.holes[name].value = value
SetHole(S, name, value) ==
    [S EXCEPT !.holes = [@ EXCEPT ![name] = [@ EXCEPT !.value = value]],
              !.writes = Append(@, [name |-> name, old |-> S.holes[name].value,
                                    new |-> value])]

\* p[1]["numb"] === q[1]["numb"] (a term that is no Val has no numb: undefined)
numb_same(p, q) ==
    IF p.tag = "Val" /\ q.tag = "Val" THEN p.numb = q.numb
    ELSE p.tag # "Val" /\ q.tag # "Val"

\* the structural branch of an equality test, on the dereferenced whnfs
equal_struct(ay, by, d) ==
    IF ay.tag # by.tag THEN Leaf(FALSE)
    ELSE CASE ay.tag = "Var" -> Leaf(ay.index = by.index)
           [] ay.tag = "Typ" -> Leaf(TRUE)
           [] ay.tag = "All" ->
                And(And(Eqs(ay.bind, by.bind, d), Eqs(ay.body, by.body, d + 1)),
                    Leaf(ay.eras = by.eras))
           [] ay.tag = "Lam" ->
                And(Eqs(ay.body, by.body, d + 1), Leaf(ay.eras = by.eras))
           [] ay.tag = "App" ->
                And(And(Eqs(ay.func, by.func, d), Eqs(ay.argm, by.argm, d)),
                    Leaf(ay.eras = by.eras))
           [] ay.tag = "Num" -> Leaf(TRUE)
           [] ay.tag = "Val" -> Leaf(ay.numb = by.numb)
           [] ay.tag = "Op1" ->
                And(Leaf(ay.func = by.func),
                    And(Eqs(ay.num0, by.num0, d), Leaf(numb_same(ay.num1, ay.num1))))
           [] ay.tag = "Op2" ->
                And(Leaf(ay.func = by.func),
                    And(Eqs(ay.num0, by.num0, d), Eqs(ay.num1, by.num1, d)))
           [] ay.tag = "Ite" ->
                And(Eqs(ay.cond, by.cond, d), Eqs(ay.if_t, by.if_t, d))
           [] ay.tag = "Slf" -> Eqs(ay.type, by.type, d + 1)
           [] ay.tag = "New" -> Eqs(ay.expr, by.expr, d)
           [] ay.tag = "Use" -> Eqs(ay.expr, by.expr, d)
           [] ay.tag = "Log" -> Eqs(ay.expr, by.expr, d)
           [] ay.tag = "Ann" -> Eqs(ay.expr, by.expr, d)
           [] OTHER -> Leaf(FALSE)

RECURSIVE equal(_, _, _, _, _)
RECURSIVE step(_, _, _)
RECURSIVE search(_, _, _)

\* the hole branch of step: S after the registry was (possibly) written
equal_hole(hole, expr, d, ds, S) ==
    LET h      == S.holes[hole.name]
        expr_s == shift(expr, h.depth - d, 0)
    IN  IF h.value = Undef THEN SetHole(S, hole.name, expr_s)
        ELSE IF h.value # NullT
        THEN LET r == equal(h.value, expr_s, h.depth, ds, S)
             IN  IF ~r.v THEN SetHole(r.S, hole.name, NullT) ELSE r.S
        ELSE S

\* case Eqs of step, given the whnfs of both sides without (ax, bx) and with
\* (ay, by) dereferencing
step_eqs(a, b, d, ax, bx, ay, by, ds, S) ==
    IF Hash(a) = Hash(b) \/ Hash(ax) = Hash(bx) \/ Hash(ay) = Hash(by)
    THEN [node |-> Leaf(TRUE), S |-> S]
    ELSE IF ax.tag = "Ref" /\ bx.tag = "Ref" /\ ax.name = bx.name
    THEN [node |-> Bop(TRUE, Leaf(TRUE), equal_struct(ay, by, d)), S |-> S]
    ELSE IF ax.tag = "Hol" \/ bx.tag = "Hol"
    THEN LET hole == IF ax.tag = "Hol" THEN ax ELSE bx
             expr == IF ax.tag = "Hol" THEN bx ELSE ax
         IN  IF hole.name \in DOMAIN S.holes
             THEN [node |-> Bop(TRUE, Leaf(TRUE), equal_struct(ay, by, d)),
                   S |-> equal_hole(hole, expr, d, ds, S)]
             ELSE [node |-> equal_struct(ay, by, d), S |-> S]
    ELSE IF ax.tag = "App" /\ bx.tag = "App"
    THEN [node |-> Bop(TRUE, And(Eqs(ax.func, bx.func, d), Eqs(ax.argm, bx.argm, d)),
                       equal_struct(ay, by, d)),
          S |-> S]
    ELSE [node |-> equal_struct(ay, by, d), S |-> S]

step(node, ds, S) ==
    CASE node.tag = "Eqs" ->
            step_eqs(node.a, node.b, node.d,
                     reduce(node.a, ReduceOpts(<<>>, TRUE, S.holes, node.d)),
                     reduce(node.b, ReduceOpts(<<>>, TRUE, S.holes, node.d)),
                     reduce(node.a, ReduceOpts(ds, TRUE, S.holes, node.d)),
                     reduce(node.b, ReduceOpts(ds, TRUE, S.holes, node.d)),
                     ds, S)
      [] node.tag = "Bop" ->
            IF node.x.tag = "Val"
            THEN [node |-> IF node.x.v = node.v THEN Leaf(node.v) ELSE node.y, S |-> S]
            ELSE IF node.y.tag = "Val"
            THEN [node |-> IF node.y.v = node.v THEN Leaf(node.v) ELSE node.x, S |-> S]
            ELSE LET X == step(node.x, ds, S)
                     Y == step(node.y, ds, X.S)
                 IN  [node |-> Bop(node.v, X.node, Y.node), S |-> Y.S]
      [] node.tag = "Val" -> [node |-> node, S |-> S]

\* expands the search tree until it is a leaf
search(tree, ds, S) ==
    IF tree.tag = "Val" THEN [v |-> tree.v, S |-> S]
    ELSE LET r == step(tree, ds, S) IN search(r.node, ds, r.S)

\* equal(a, b, depth, defs, {holes}) : [v |-> the answer, S |-> the session after]
equal(a, b, depth, ds, S) == search(Eqs(erase(a), erase(b), depth), ds, S)

NoHoles == [holes |-> <<>>, writes |-> <<>>]

(***************************************************************************)
(* Affinity checking                                                       *)
(***************************************************************************)
RECURSIVE uses(_, _)
uses(term, depth) ==
    CASE term.tag = "Var" -> IF term.index = depth THEN 1 ELSE 0
      [] term.tag = "Lam" -> uses(term.body, depth + 1)
      [] term.tag = "App" ->
            uses(term.func, depth) + (IF term.eras THEN 0 ELSE uses(term.argm, depth))
      [] term.tag = "Op1" -> uses(term.num0, depth) + uses(term.num1, depth)
      [] term.tag = "Op2" -> uses(term.num0, depth) + uses(term.num1, depth)
      [] term.tag = "Ite" ->
            uses(term.cond, depth) + uses(term.if_t, depth) + uses(term.if_f, depth)
      [] term.tag = "New" -> uses(term.expr, depth)
      [] term.tag = "Use" -> uses(term.expr, depth)
      [] term.tag = "Ann" -> uses(term.expr, depth)
      [] term.tag = "Log" -> uses(term.expr, depth)
      [] OTHER -> 0

RECURSIVE is_affine(_, _, _)
is_affine(term, ds, seen) ==
    CASE term.tag = "Lam" ->
            LET self == uses(term.body, 0) <= 1
                body == is_affine(term.body, ds, seen)
            IN  self /\ body
      [] term.tag = "App" ->
            LET func == is_affine(term.func, ds, seen)
                argm == IF term.eras THEN TRUE ELSE is_affine(term.argm, ds, seen)
            IN  func /\ argm
      [] term.tag = "Op1" ->
            is_affine(term.num0, ds, seen) /\ is_affine(term.num1, ds, seen)
      [] term.tag = "Op2" ->
            is_affine(term.num0, ds, seen) /\ is_affine(term.num1, ds, seen)
      [] term.tag = "Ite" ->
            LET cond == is_affine(term.cond, ds, seen)
                if_t == is_affine(term.if_t, ds, seen)
                if_f == is_affine(term.if_t, ds, seen)
            IN  cond /\ if_t /\ if_f
      [] term.tag = "New" -> is_affine(term.expr, ds, seen)
      [] term.tag = "Use" -> is_affine(term.expr, ds, seen)
      [] term.tag = "Ann" -> is_affine(term.expr, ds, seen)
      [] term.tag = "Log" -> is_affine(term.expr, ds, seen)
      [] term.tag = "Ref" ->
            IF term.name \in seen THEN TRUE
            ELSE is_affine(ds[term.name], ds, seen \cup {term.name})
      [] OTHER -> TRUE

(***************************************************************************)
(* Typing contexts: the list of frames, innermost first; ctx_new is empty. *)
(***************************************************************************)
TypeError == [tag |-> "TypeError"]

ctx_new == <<>>
ctx_ext(name, term, type, eras, ctx) ==
    <<[name |-> name, term |-> term, type |-> type, eras |-> eras]>> \o ctx

\* the loop of ctx_get: k frames were passed, rest is what is left of ctx
RECURSIVE ctx_walk(_, _, _)
ctx_walk(k, i, rest) ==
    IF k < i
    THEN IF Len(rest) = 0 THEN TypeError            \* ctx.rest is undefined
         ELSE IF Len(Tail(rest)) = 0 THEN NullT     \* ctx.rest.length === 0
         ELSE ctx_walk(k + 1, i, Tail(rest))
    ELSE IF Len(rest) = 0
         THEN [name |-> "", term |-> Var(i), type |-> NullT, eras |-> FALSE]
         ELSE [name |-> rest[1].name,
               term |-> IF rest[1].term # NullT THEN shift(rest[1].term, i + 1, 0)
                        ELSE Var(i),
               type |-> shift(rest[1].type, i + 1, 0),
               eras |-> rest[1].eras]

ctx_get(i, ctx) == IF i < 0 THEN NullT ELSE ctx_walk(0, i, ctx)

(***************************************************************************)
(* The type checker.  T is the session: the hole registry (holes, writes), *)
(* the Types cache, Defs, and gen, which counts how often defs[name] was   *)
(* replaced by another object.  A term that is part of a Defs entry is     *)
(* addressed by loc = [name, gen, path]: the done flag of an Ann is        *)
(* written to, and read from, that object for as long as it is the one     *)
(* Defs holds.                                                             *)
(***************************************************************************)
NoLoc == [name |-> "", gen |-> 0, path |-> <<>>]
Sub(loc, field) == IF loc = NoLoc THEN NoLoc ELSE [loc EXCEPT !.path = Append(@, field)]
Live(loc, T) == loc # NoLoc /\ loc.name \in DOMAIN T.defs /\ T.gen[loc.name] = loc.gen

RECURSIVE At(_, _)
At(t, path) == IF path = <<>> THEN t ELSE At(t[Head(path)], Tail(path))

RECURSIVE SetDoneAt(_, _, _)
SetDoneAt(t, path, b) ==
    IF path = <<>> THEN [t EXCEPT !.done = b]
    ELSE [t EXCEPT ![Head(path)] = SetDoneAt(@, Tail(path), b)]

\* term[1].done = b on the object at loc
SetDone(T, loc, b) ==
    IF Live(loc, T)
    THEN [T EXCEPT !.defs = [@ EXCEPT ![loc.name] = SetDoneAt(@, loc.path, b)]]
    ELSE T

Ok(type, T) == [ok |-> TRUE, err |-> "", type |-> type, T |-> T]
Err(msg, T) == [ok |-> FALSE, err |-> msg, type |-> NullT, T |-> T]

weak_normal(term, depth, T) == reduce(term, ReduceOpts(T.defs, TRUE, T.holes, depth))
display_normal(term, T) == reduce(term, ReduceOpts(<<>>, FALSE, T.holes, 0))
subst_holes(term, depth, T) ==
    reduce(term, [ReduceOpts(<<>>, FALSE, T.holes, depth) EXCEPT
                    !.no_app = TRUE, !.no_ref = TRUE, !.no_op1 = TRUE,
                    !.no_op2 = TRUE, !.no_use = TRUE, !.no_ann = TRUE])

\* register_hole without its test `if (!holes[name])`
register_hole_always(ctx, term, expect, T) ==
    [T EXCEPT !.holes =
        [n \in DOMAIN T.holes \cup {term.name} |->
            IF n = term.name
            THEN [ctx |-> ctx, expect |-> expect, depth |-> Len(ctx), value |-> Undef]
            ELSE T.holes[n]],
              !.order = Append(@, term.name)]

register_hole(ctx, term, expect, T) ==
    IF term.name \in DOMAIN T.holes THEN T
    ELSE [T EXCEPT !.holes =
            [n \in DOMAIN T.holes \cup {term.name} |->
                IF n = term.name
                THEN [ctx |-> ctx, expect |-> expect, depth |-> Len(ctx), value |-> Undef]
                ELSE T.holes[n]],
                   !.order = Append(@, term.name)]

\* do_match(a, b): a is the inferred type
do_match(a, b, ctx, T) ==
    LET matched(r) == IF r.v THEN Ok(a, r.S) ELSE Err("Type mismatch.", r.S)
    IN  IF a = NullT THEN Err("TypeError", T)
        ELSE matched(equal(a, b, Len(ctx), T.defs, T))

RECURSIVE typecheck_term(_, _, _, _, _, _)

tc_Var(term, ctx, erased, T) ==
    LET got == ctx_get(term.index, ctx)
    IN  IF got = TypeError THEN Err("TypeError", T)
        ELSE IF got # NullT
        THEN IF got.eras /\ ~erased
             THEN Err("Use of erased variable in non-erased position.", T)
             ELSE Ok(got.type, T)
        ELSE Err("Unbound variable.", T)

tc_All(term, expect_nf, ctx, loc, T) ==
    IF expect_nf # NullT /\ expect_nf.tag # "Typ"
    THEN Err("The inferred type of a forall isn't Type.", T)
    ELSE LET bind_t == typecheck_term(term.bind, Typ, ctx, TRUE, Sub(loc, "bind"), T)
             ex_ctx == ctx_ext(term.name, NullT, term.bind, term.eras, ctx)
             body_t == typecheck_term(term.body, Typ, ex_ctx, TRUE, Sub(loc, "body"),
                                      bind_t.T)
         IN  IF ~bind_t.ok THEN bind_t
             ELSE IF ~body_t.ok THEN body_t
             ELSE Ok(Typ, body_t.T)

tc_Lam(term, expect_nf, ctx, erased, loc, T) ==
    LET inherit == expect_nf # NullT /\ expect_nf.tag = "All"
        bind_v  == IF inherit THEN expect_nf.bind ELSE term.bind
        ex_ctx  == ctx_ext(term.name, NullT, bind_v, term.eras, ctx)
        kind(body_t, body_T) ==
            IF ~body_T.ok THEN body_T
            ELSE Ok(All(term.name, bind_v, body_t.type, term.eras), body_T.T)
        body(body_t) ==
            IF ~body_t.ok THEN body_t
            ELSE IF body_t.type = NullT THEN Err("TypeError", body_t.T)
            ELSE kind(body_t,
                      typecheck_term(body_t.type, Typ, ex_ctx, TRUE, NoLoc, body_t.T))
        bind(bind_t) ==
            IF ~bind_t.ok THEN bind_t
            ELSE body(typecheck_term(term.body,
                                     IF inherit THEN expect_nf.body ELSE NullT,
                                     ex_ctx, erased, Sub(loc, "body"), bind_t.T))
    IN  IF bind_v = NullT /\ expect_nf = NullT
        THEN Err("Can't infer non-annotated lambda.", T)
        ELSE IF bind_v = NullT
        THEN Err("The inferred type of a lambda isn't forall.", T)
        ELSE bind(typecheck_term(bind_v, Typ, ctx, TRUE,
                                 IF inherit THEN NoLoc ELSE Sub(loc, "bind"), T))

tc_App(term, ctx, erased, loc, T) ==
    LET argm(func_t, argm_t) ==
            IF ~argm_t.ok THEN argm_t
            ELSE IF func_t.eras # term.eras THEN Err("Mismatched erasure.", argm_t.T)
            ELSE Ok(subst(func_t.body, Ann(func_t.bind, term.argm, FALSE), 0), argm_t.T)
        func(func_r, func_t) ==
            IF func_t.tag # "All"
            THEN Err("Attempted to apply a value that isn't a function.", func_r.T)
            ELSE argm(func_t,
                      typecheck_term(term.argm, func_t.bind, ctx, term.eras \/ erased,
                                     Sub(loc, "argm"), func_r.T))
        infer(func_r) ==
            IF ~func_r.ok THEN func_r
            ELSE IF func_r.type = NullT THEN Err("TypeError", func_r.T)
            ELSE func(func_r, weak_normal(func_r.type, Len(ctx), func_r.T))
    IN  infer(typecheck_term(term.func, NullT, ctx, erased, Sub(loc, "func"), T))

tc_Op(term, ctx, erased, loc, T) ==
    LET num1(num1_t) == IF ~num1_t.ok THEN num1_t ELSE Ok(Num, num1_t.T)
        num0(num0_t) ==
            IF ~num0_t.ok THEN num0_t
            ELSE num1(typecheck_term(term.num1, Num, ctx, erased, Sub(loc, "num1"),
                                     num0_t.T))
    IN  num0(typecheck_term(term.num0, Num, ctx, erased, Sub(loc, "num0"), T))

tc_Ite(term, expect_nf, ctx, erased, loc, T) ==
    LET if_f(if_t_t, if_t_f) ==
            IF ~if_t_f.ok THEN if_t_f
            ELSE Ok(IF expect_nf # NullT THEN expect_nf ELSE if_t_t.type, if_t_f.T)
        if_t(if_t_t) ==
            IF ~if_t_t.ok THEN if_t_t
            ELSE if_f(if_t_t,
                      typecheck_term(term.if_f, if_t_t.type, ctx, erased,
                                     Sub(loc, "if_f"), if_t_t.T))
        cond(cond_r, cond_t) ==
            IF cond_t.tag # "Num"
            THEN Err("Attempted to use if on a non-numeric value.", cond_r.T)
            ELSE if_t(typecheck_term(term.if_t, expect_nf, ctx, erased, Sub(loc, "if_t"),
                                     cond_r.T))
        infer(cond_r) ==
            IF ~cond_r.ok THEN cond_r
            ELSE IF cond_r.type = NullT THEN Err("TypeError", cond_r.T)
            ELSE cond(cond_r, weak_normal(cond_r.type, Len(ctx), cond_r.T))
    IN  infer(typecheck_term(term.cond, NullT, ctx, erased, Sub(loc, "cond"), T))

tc_Slf(term, ctx, loc, T) ==
    LET type(type_t) == IF ~type_t.ok THEN type_t ELSE Ok(Typ, type_t.T)
    IN  type(typecheck_term(term.type, Typ, ctx_ext(term.name, NullT, term, FALSE, ctx),
                            TRUE, Sub(loc, "type"), T))

tc_New(term, ctx, erased, loc, T) ==
    LET expr(expr_t) == IF ~expr_t.ok THEN expr_t ELSE Ok(term.type, expr_t.T)
        self(ttyp, ttyp_t) ==
            IF ~ttyp_t.ok THEN ttyp_t
            ELSE expr(typecheck_term(term.expr,
                                     subst(ttyp.type, Ann(ttyp, term, TRUE), 0),
                                     ctx, erased, Sub(loc, "expr"), ttyp_t.T))
        type(ttyp) ==
            IF ttyp.tag # "Slf"
            THEN Err("Attempted to make an instance of a type that isn't self.", T)
            ELSE self(ttyp, typecheck_term(ttyp, NullT, ctx, TRUE, NoLoc, T))
    IN  type(weak_normal(term.type, Len(ctx), T))

tc_Use(term, ctx, erased, loc, T) ==
    LET self(expr_r, expr_t) ==
            IF expr_t.tag # "Slf"
            THEN Err("Attempted to use a value that isn't a self type.", expr_r.T)
            ELSE Ok(subst(expr_t.type, term.expr, 0), expr_r.T)
        infer(expr_r) ==
            IF ~expr_r.ok THEN expr_r
            ELSE IF expr_r.type = NullT THEN Err("TypeError", expr_r.T)
            ELSE self(expr_r, weak_normal(expr_r.type, Len(ctx), expr_r.T))
    IN  infer(typecheck_term(term.expr, NullT, ctx, erased, Sub(loc, "expr"), T))

tc_Ann(term, ctx, erased, loc, T) ==
    LET \* catch (e) { term[1].done = false; throw e; }
        caught(r) == [r EXCEPT !.T = SetDone(r.T, loc, FALSE)]
        expr(expr_t) == IF ~expr_t.ok THEN caught(expr_t) ELSE Ok(term.type, expr_t.T)
        type(type_t) ==
            IF ~type_t.ok THEN caught(type_t)
            ELSE expr(typecheck_term(term.expr, term.type, ctx, erased,
                                     Sub(loc, "expr"), type_t.T))
    IN  IF ~term.done
        THEN type(typecheck_term(term.type, Typ, ctx, TRUE, Sub(loc, "type"),
                                 SetDone(T, loc, TRUE)))
        ELSE Ok(term.type, T)

tc_Log(term, expect, ctx, erased, loc, T) ==
    LET expr(msge_t) ==
            typecheck_term(term.expr, expect, ctx, erased, Sub(loc, "expr"), msge_t.T)
    IN  expr(typecheck_term(term.msge, NullT, ctx, TRUE, Sub(loc, "msge"), T))

tc_Hol(term, expect, ctx, T) ==
    Ok(IF expect # NullT THEN expect ELSE Hol(term.name \o "_type"),
       register_hole(ctx, term, expect, T))

\* the caching step of case Ref, after the definition was checked with type dref_t
ref_cache(name, dref_t, T) ==
    LET store(type, body) ==
            [T EXCEPT !.defs = [@ EXCEPT ![name] =
                                  IF body.tag = "Ann" THEN [body EXCEPT !.done = TRUE]
                                  ELSE Ann(type, body, TRUE)],
                      !.gen = [@ EXCEPT ![name] = @ + 1],
                      !.types = [n \in DOMAIN T.types \cup {name} |->
                                    IF n = name THEN type ELSE T.types[n]],
                      !.cached = Append(@, name)]
    IN  store(subst_holes(dref_t, 0, T), subst_holes(T.defs[name], 0, T))

\* a case Ref that stores the type of the definition after every check of it
tc_Ref_unguarded(term, erased, T) ==
    LET name == term.name
        cached(T2) == Ok(T2.types[name], T2)
        checked(dref) ==
            IF ~dref.ok THEN dref
            ELSE IF dref.type = NullT THEN Err("TypeError", dref.T)
            ELSE cached(ref_cache(name, dref.type, dref.T))
    IN  IF name \notin DOMAIN T.defs THEN Err("Undefined reference.", T)
        ELSE IF name \notin DOMAIN T.types
        THEN checked(typecheck_term(T.defs[name], NullT, ctx_new, erased,
                                    [name |-> name, gen |-> T.gen[name], path |-> <<>>],
                                    T))
        ELSE cached(T)

tc_Ref(term, erased, T) ==
    LET name == term.name
        cached(T2) == Ok(T2.types[name], T2)
        checked(dref) ==
            IF ~dref.ok THEN dref
            ELSE IF name \notin DOMAIN dref.T.types
            THEN IF dref.type = NullT THEN Err("TypeError", dref.T)
                 ELSE cached(ref_cache(name, dref.type, dref.T))
            ELSE cached(dref.T)
    IN  IF name \notin DOMAIN T.defs THEN Err("Undefined reference.", T)
        ELSE IF name \notin DOMAIN T.types
        THEN checked(typecheck_term(T.defs[name], NullT, ctx_new, erased,
                                    [name |-> name, gen |-> T.gen[name], path |-> <<>>],
                                    T))
        ELSE cached(T)

\* the inner typecheck(term, expect, ctx, erased); given is the caller's view of
\* the term, which is read again from Defs when it is part of a live entry
typecheck_term(given, expect, ctx, erased, loc, T) ==
    LET term == IF Live(loc, T) THEN At(T.defs[loc.name], loc.path) ELSE given
        infer(expect_nf) ==
            CASE term.tag = "Var" -> tc_Var(term, ctx, erased, T)
              [] term.tag = "Typ" -> Ok(Typ, T)
              [] term.tag = "All" -> tc_All(term, expect_nf, ctx, loc, T)
              [] term.tag = "Lam" -> tc_Lam(term, expect_nf, ctx, erased, loc, T)
              [] term.tag = "App" -> tc_App(term, ctx, erased, loc, T)
              [] term.tag = "Num" -> Ok(Typ, T)
              [] term.tag = "Val" -> Ok(Num, T)
              [] term.tag = "Op1" -> tc_Op(term, ctx, erased, loc, T)
              [] term.tag = "Op2" -> tc_Op(term, ctx, erased, loc, T)
              [] term.tag = "Ite" -> tc_Ite(term, expect_nf, ctx, erased, loc, T)
              [] term.tag = "Slf" -> tc_Slf(term, ctx, loc, T)
              [] term.tag = "New" -> tc_New(term, ctx, erased, loc, T)
              [] term.tag = "Use" -> tc_Use(term, ctx, erased, loc, T)
              [] term.tag = "Ann" -> tc_Ann(term, ctx, erased, loc, T)
              [] term.tag = "Log" -> tc_Log(term, expect, ctx, erased, loc, T)
              [] term.tag = "Hol" -> tc_Hol(term, expect, ctx, T)
              [] term.tag = "Ref" -> tc_Ref(term, erased, T)
              [] OTHER -> Err("TypeError", T)
        match(r) ==
            IF r.ok /\ expect # NullT THEN do_match(r.type, expect, ctx, r.T) ELSE r
    IN  match(infer(IF expect # NullT THEN weak_normal(expect, Len(ctx), T) ELSE NullT))

\* the report loop that prints only the holes that have a name of their own
RECURSIVE hole_report_named(_, _)
hole_report_named(order, hs) ==
    IF order = <<>> THEN <<>>
    ELSE LET hole_name == Head(order)
             solved    == hs[hole_name].value \notin {Undef, NullT}
         IN  (IF hole_name = "" \/ Head(hole_name) # "_"
              THEN <<[name |-> hole_name, solved |-> solved]>> ELSE <<>>)
             \o hole_report_named(Tail(order), hs)

\* the hole messages printed after a successful check, in registry order
RECURSIVE hole_report(_, _)
hole_report(order, hs) ==
    IF order = <<>> THEN <<>>
    ELSE LET hole_name == Head(order)
             solved    == hs[hole_name].value \notin {Undef, NullT}
         IN  (IF ~solved \/ hole_name = "" \/ Head(hole_name) # "_"
              THEN <<[name |-> hole_name, solved |-> solved]>> ELSE <<>>)
             \o hole_report(Tail(order), hs)

NewSession(ds) ==
    [holes |-> <<>>, writes |-> <<>>, order |-> <<>>, types |-> <<>>, cached |-> <<>>,
     defs |-> ds, gen |-> [n \in DOMAIN ds |-> 0]]

\* typecheck(name, expect, defs): what the caller observes, and the session
\* (with Defs) it leaves
typecheck(name, expect, ds) ==
    LET done(r) ==
            IF r.ok
            THEN [ok |-> TRUE, err |-> "", type |-> display_normal(r.type, r.T),
                  report |-> hole_report(r.T.order, r.T.holes), T |-> r.T]
            ELSE [ok |-> FALSE,
                  err |-> IF r.err = "TypeError"
                          THEN "Sorry, the type-checker couldn't handle your input."
                          ELSE r.err,
                  type |-> NullT, report |-> <<>>, T |-> r.T]
    IN  done(typecheck_term(Ref(name, FALSE), expect, ctx_new, FALSE, NoLoc,
                            NewSession(ds)))

(***************************************************************************)
(* Specification SpecTerm: the pure functions of the kernel applied to     *)
(* inputs drawn from bounded sets.                                         *)
(***************************************************************************)
MaxWord == 3
Words == 0..MaxWord

\* the operators of the numeric table whose results are integers on Words
WordOps == {".+.", ".-.", ".*.", ".&.", ".|.", ".^.", ".~.", ".>>>.", ".<<."}
CmpOps == {".>.", ".<.", ".==."}

Op1Inputs ==
    {[fn |-> "op1", func |-> f, a |-> a, b |-> b] : f \in WordOps \cup CmpOps,
                                                     a \in Words, b \in Words}

\* conditions: literals, subtractions and complements
CondTerms ==
    {Val(n) : n \in Words}
    \cup {Op2(".-.", Val(a), Val(b)) : a \in Words, b \in Words}
    \cup {Op1(".~.", Val(0), Val(b)) : b \in Words}

IteInputs ==
    {[fn |-> "ite", cond |-> c, if_t |-> t, if_f |-> f] :
        c \in CondTerms, t \in {Typ, Val(1)}, f \in {Num, Val(0)}}

EqOp1Terms ==
    {Op1(f, x, Val(m)) : f \in {".+.", ".*."}, x \in {Var(0), Var(1)}, m \in Words}

EqualInputs ==
    {[fn |-> "equal", a |-> a, b |-> b, depth |-> 2] : a \in EqOp1Terms, b \in EqOp1Terms}

AffBodies ==
    {Var(0), Val(0), Op2(".+.", Var(0), Var(0)),
     App(Var(0), Var(0), FALSE), App(Var(0), Var(0), TRUE)}
AffLams == {Lam("x", NullT, b, FALSE) : b \in AffBodies}
AffAtoms == AffLams \cup {Val(1), Ref("g", FALSE)}
AffTerms ==
    AffAtoms
    \cup {Ite(c, t, f) : c \in AffAtoms, t \in AffAtoms, f \in AffAtoms}
    \cup {App(f, a, e) : f \in AffAtoms, a \in AffAtoms, e \in BOOLEAN}

AffineInputs ==
    {[fn |-> "is_affine", term |-> t, defs |-> [g |-> d]] :
        t \in AffTerms, d \in AffLams \cup {Ref("g", FALSE)}}

Idle == [tag |-> "idle"]

TermInit ==
    /\ phase = "ready"
    /\ input \in Op1Inputs \cup IteInputs \cup EqualInputs \cup AffineInputs
    /\ output = Idle
    /\ mem = <<>> /\ root = 0 /\ back = <<>> /\ collect_length = 0 /\ stats = Idle
    /\ holes = NoHoles /\ defs = <<>> /\ net = Idle /\ warp = <<>> /\ prev = Idle /\ next = Idle

TermRest == <<mem, root, back, collect_length, stats, holes, defs, net, warp, prev, next>>

\* reduce(Op1(func, Val a, Val b))
ReduceOp1 ==
    /\ phase = "ready" /\ input.fn = "op1"
    /\ output' = normal(Op1(input.func, Val(input.a), Val(input.b)), <<>>)
    /\ phase' = "done"
    /\ UNCHANGED <<input, TermRest>>

\* reduce(Ite(cond, if_t, if_f))
ReduceIte ==
    /\ phase = "ready" /\ input.fn = "ite"
    /\ output' = normal(Ite(input.cond, input.if_t, input.if_f), <<>>)
    /\ phase' = "done"
    /\ UNCHANGED <<input, TermRest>>

\* equal(a, b, depth, {}, {holes: {}})
EqualTerms ==
    /\ phase = "ready" /\ input.fn = "equal"
    /\ output' = [v |-> equal(input.a, input.b, input.depth, <<>>, NoHoles).v]
    /\ phase' = "done"
    /\ UNCHANGED <<input, TermRest>>

\* is_affine(term, defs)
IsAffine ==
    /\ phase = "ready" /\ input.fn = "is_affine"
    /\ output' = [v |-> is_affine(input.term, input.defs, {})]
    /\ phase' = "done"
    /\ UNCHANGED <<input, TermRest>>

TermNext == ReduceOp1 \/ ReduceIte \/ EqualTerms \/ IsAffine

SpecTerm == TermInit /\ [][TermNext]_vars

\* n is an unsigned 32-bit word (2^32 = 65536 * 65536)
IsWord(n) == n >= 0 /\ n \div 65536 < 65536

\* (a + b) mod 2^32, on 16-bit halves
AddMod32(a, b) ==
    LET lo == (a % 65536) + (b % 65536)
        hi == (a \div 65536) + (b \div 65536) + (lo \div 65536)
    IN  (hi % 65536) * 65536 + (lo % 65536)

\* every Lam of t outside erased arguments, through every branch and every Ref,
\* uses its variable at most once
RECURSIVE LamsAffine(_, _, _)
LamsAffine(t, ds, seen) ==
    CASE t.tag = "Lam" -> uses(t.body, 0) <= 1 /\ LamsAffine(t.body, ds, seen)
      [] t.tag = "App" ->
            LamsAffine(t.func, ds, seen) /\ (t.eras \/ LamsAffine(t.argm, ds, seen))
      [] t.tag \in {"Op1", "Op2"} ->
            LamsAffine(t.num0, ds, seen) /\ LamsAffine(t.num1, ds, seen)
      [] t.tag = "Ite" ->
            /\ LamsAffine(t.cond, ds, seen)
            /\ LamsAffine(t.if_t, ds, seen)
            /\ LamsAffine(t.if_f, ds, seen)
      [] t.tag \in {"New", "Use", "Ann", "Log"} -> LamsAffine(t.expr, ds, seen)
      [] t.tag = "Ref" ->
            t.name \in seen \/ LamsAffine(ds[t.name], ds, seen \cup {t.name})
      [] OTHER -> TRUE

\* C5: whenever is_affine answers true, every Lam of the term outside erased
\* application arguments (in the condition, the then-branch and the else-branch
\* of every Ite, and in every definition a Ref leads to) uses its bound
\* variable at most once.
C5_AffineSound ==
    (phase = "done" /\ input.fn = "is_affine" /\ output.v)
        => LamsAffine(input.term, input.defs, {})

\* C6: on unsigned 32-bit operands, the numeric rule of the reducer returns a
\* Val whose number is again an unsigned 32-bit word, for each of the operators
\* + - * & | ^ ~ >>> <<, and a .+. b is (a + b) mod 2^32.
C6_WordResults ==
    (phase = "done" /\ input.fn = "op1" /\ input.func \in WordOps)
        => /\ output.tag = "Val"
           /\ IsWord(output.numb)
           /\ input.func = ".+." => output.numb = AddMod32(input.a, input.b)

\* C7: when the condition of an Ite reduces to Val n, the reducer returns the
\* then-branch if n is not 0 and the else-branch if n is 0, whatever number n
\* the numeric rules produced.
C7_IteSelects ==
    (phase = "done" /\ input.fn = "ite")
        => LET c == normal(input.cond, <<>>)
           IN  c.tag = "Val"
                  => output = IF c.numb # 0 THEN normal(input.if_t, <<>>)
                              ELSE normal(input.if_f, <<>>)

\* C8: equal on two Op1 terms with the same operator and the same neutral first
\* operand answers true only if their numeric literals are the same number.
C8_Op1Literals ==
    (phase = "done" /\ input.fn = "equal" /\ output.v)
        => input.a.num1.numb = input.b.num1.numb

(***************************************************************************)
(* Specification SpecEq: a session of register_hole and equal calls that   *)
(* share one hole registry.  holes.writes lists the assignments of the     *)
(* last call.                                                              *)
(***************************************************************************)
HoleNames == {"a", "b"}

\* ground terms, and terms with holes; a call compares a term with a ground
\* term, so that no hole is ever assigned a term that contains a hole (the
\* engine has no occurs check and does not return on a cyclic assignment)
EqGround == {Num, Typ, App(Num, Val(0), FALSE), App(Typ, Num, FALSE)}
EqHoled ==
    {Hol(n) : n \in HoleNames}
    \cup {App(Hol("a"), Hol("b"), FALSE), App(Hol("b"), Hol("a"), FALSE),
          App(Hol("a"), Val(0), FALSE)}
EqPairs ==
    {<<a, b>> : a \in EqHoled, b \in EqGround}
    \cup {<<a, b>> : a \in {Num}, b \in EqHoled}

NoRegistry == [holes |-> <<>>, writes |-> <<>>, order |-> <<>>]

EqInit ==
    /\ phase = "session"
    /\ input = Idle
    /\ output = Idle
    /\ holes = NoRegistry
    /\ mem = <<>> /\ root = 0 /\ back = <<>> /\ collect_length = 0 /\ stats = Idle /\ defs = <<>> /\ net = Idle /\ warp = <<>> /\ prev = Idle /\ next = Idle

EqRest == <<phase, input, mem, root, back, collect_length, stats, defs, net, warp, prev, next>>

\* the type checker meets the hole `name` (at depth 0, no expected type)
RegisterHole(name) ==
    /\ holes' = register_hole(ctx_new, Hol(name), NullT, [holes EXCEPT !.writes = <<>>])
    /\ output' = Idle
    /\ UNCHANGED EqRest

\* equal(a, b, 0, {}, {holes})
EqualCall(a, b) ==
    LET r == equal(a, b, 0, <<>>, [holes EXCEPT !.writes = <<>>])
    IN  /\ holes' = r.S
        /\ output' = [v |-> r.v]
        /\ UNCHANGED EqRest

EqNext ==
    \/ \E name \in HoleNames : RegisterHole(name)
    \/ \E p \in EqPairs : EqualCall(p[1], p[2])

SpecEq == EqInit /\ [][EqNext]_vars

\* one assignment to a hole's value: unset -> a term, or a term -> null
HoleMove(old, new) ==
    \/ old = Undef /\ new \notin {Undef, NullT}
    \/ old \notin {Undef, NullT} /\ new = NullT

\* the values of the registry hs after the assignments ws, each of which must
\* find the value it replaces
RECURSIVE Replay(_, _)
Replay(hs, ws) ==
    IF ws = <<>> THEN hs
    ELSE Replay([hs EXCEPT ![Head(ws).name] = [@ EXCEPT !.value = Head(ws).new]], Tail(ws))

RECURSIVE WritesFollow(_, _)
WritesFollow(hs, ws) ==
    \/ ws = <<>>
    \/ /\ Head(ws).name \in DOMAIN hs
       /\ hs[Head(ws).name].value = Head(ws).old
       /\ HoleMove(Head(ws).old, Head(ws).new)
       /\ WritesFollow([hs EXCEPT ![Head(ws).name] = [@ EXCEPT !.value = Head(ws).new]],
                       Tail(ws))

\* C4: in a session of equal calls over one registry, every assignment to a
\* hole moves it from unset to a term or from a term to null, a registered hole
\* stays registered and never returns to unset or to another term, and every
\* hole that an assignment is not about keeps its value.
C4_Monotone ==
    [][ /\ WritesFollow(holes.holes, holes'.writes)
        /\ \A n \in DOMAIN holes.holes :
              /\ n \in DOMAIN holes'.holes
              /\ holes'.holes[n] = Replay(holes.holes, holes'.writes)[n]
              /\ LET old == holes.holes[n].value
                     new == holes'.holes[n].value
                 IN  \/ new = old
                     \/ old = Undef
                     \/ new = NullT ]_vars

\* the last call assigned one hole while another hole, assigned before, is
\* not among its assignments
C4_Witness ==
    /\ phase = "session"
    /\ \E n \in DOMAIN holes.holes, k \in DOMAIN holes.holes :
          /\ n # k
          /\ holes.holes[k].value \notin {Undef, NullT}
          /\ \A i \in DOMAIN holes.writes : holes.writes[i].name # k
          /\ \E i \in DOMAIN holes.writes :
                /\ holes.writes[i].name = n
                /\ holes.writes[i].old = Undef
                /\ holes.writes[i].new = holes.holes[n].value

(***************************************************************************)
(* Specification SpecTc: a caller that type-checks the names of one Defs   *)
(* table, several times, and the inner typecheck applied to a variable in  *)
(* a context of a given length.  input is the history of the calls, output *)
(* what the last call returned or threw.                                   *)
(***************************************************************************)
MaxCalls == 2
MaxIndex == 2
MaxCtx == 2

\* an erased binder  x : Num  over the body b
ErasedUse(b) == Lam("x", Num, b, TRUE)

\* definitions with an erased binder, whose variable occurs in the body of the
\* binder, in the argument of an application (erased or not), under an
\* operator, in the binder of a Lam, in the type of an Ann, in the message of
\* a Log; and an erased argument that refers to g
ErasedBodies ==
    { ErasedUse(Var(0)), ErasedUse(Val(1)),
      ErasedUse(App(Lam("n", Num, Val(1), TRUE), Var(0), TRUE)),
      ErasedUse(App(Lam("n", Num, Val(1), FALSE), Var(0), FALSE)),
      ErasedUse(App(Lam("n", Num, Val(1), TRUE), Op2(".+.", Var(0), Val(1)), TRUE)),
      ErasedUse(Op2(".+.", Val(1), Var(0))),
      ErasedUse(Log(Var(0), Val(1))),
      Lam("t", Typ, Lam("y", Var(0), Var(0), FALSE), TRUE),
      Lam("t", Typ, Lam("y", Var(0), Ann(Var(1), Var(0), FALSE), FALSE), TRUE),
      App(Lam("n", All("x", Num, Num, TRUE), Val(1), TRUE), Ref("g", FALSE), TRUE) }

DefBodiesF ==
    {Val(1), Var(0), Hol("_b"), Hol("h"),
     Lam("x", Num, Var(0), FALSE), Lam("x", Num, Var(1), FALSE),
     Ann(Num, Val(1), FALSE), Ann(Num, Typ, FALSE),
     Ann(Hol("_a"), Val(1), FALSE), Ann(Hol("a"), Val(1), FALSE),
     Ann(Hol("_a"), Ite(Val(1), Val(1), Hol("_b")), FALSE),
     Ann(Hol("a"), Ite(Val(1), Hol("h"), Val(0)), FALSE),
     Ann(All("x", Num, Num, FALSE), Lam("x", NullT, Var(0), FALSE), FALSE),
     Ann(Num, Op2(".+.", Ref("f", FALSE), Val(1)), FALSE),
     Ann(Num, Op2(".+.", Ref("f", FALSE), Typ), FALSE),
     Ann(Num, Op2(".+.", Ref("g", FALSE), Val(1)), FALSE),
     Ann(Num, Op2(".+.", Typ, Ref("g", FALSE)), FALSE),
     Ann(Num, Op2(".+.", Ref("f", FALSE), Ref("f", FALSE)), FALSE),
     Op2(".+.", Ref("g", FALSE), Ref("g", FALSE))}
    \cup ErasedBodies
DefBodiesG ==
    {Val(2), Ann(Num, Typ, FALSE), Ann(Num, Op2(".+.", Ref("g", FALSE), Typ), FALSE),
     ErasedUse(Var(0))}
DefTables == {[f |-> bf, g |-> bg] : bf \in DefBodiesF, bg \in DefBodiesG}

\* a context of L frames  x : Num
RECURSIVE NumCtx(_)
NumCtx(L) == IF L = 0 THEN ctx_new ELSE ctx_ext("x", NullT, Num, FALSE, NumCtx(L - 1))

TcInit ==
    /\ phase = "caller"
    /\ defs \in DefTables
    /\ input = <<>>
    /\ output = Idle
    /\ mem = <<>> /\ root = 0 /\ back = <<>> /\ collect_length = 0 /\ stats = Idle /\ holes = NoRegistry /\ net = Idle /\ warp = <<>> /\ prev = Idle /\ next = Idle

TcRest == <<phase, mem, root, back, collect_length, stats, holes, net, warp, prev, next>>

\* typecheck(name, null, defs), called from outside
Typecheck(name) ==
    LET return(r) ==
            /\ defs' = r.T.defs
            /\ output' = [fn |-> "typecheck", name |-> name, ok |-> r.ok, err |-> r.err,
                          type |-> r.type, report |-> r.report, holes |-> r.T.holes,
                          cached |-> r.T.cached, session |-> r.T]
            /\ input' = Append(input, [fn |-> "typecheck", name |-> name, ok |-> r.ok])
    IN  /\ Len(input) < MaxCalls
        /\ return(typecheck(name, NullT, defs))
        /\ UNCHANGED TcRest

\* the inner typecheck(Var(i), null, ctx, false) in a context of length L
CheckVar(i, L) ==
    LET return(r) ==
            /\ output' = [fn |-> "var", i |-> i, L |-> L, ok |-> r.ok, err |-> r.err,
                          type |-> r.type]
            /\ input' = Append(input, [fn |-> "var", name |-> "", ok |-> r.ok])
    IN  /\ Len(input) < MaxCalls
        /\ return(typecheck_term(Var(i), NullT, NumCtx(L), FALSE, NoLoc, NewSession(defs)))
        /\ UNCHANGED <<defs, TcRest>>

TcNext ==
    \/ \E name \in {"f", "g"} : Typecheck(name)
    \/ \E i \in 0..MaxIndex, L \in 0..MaxCtx : CheckVar(i, L)

SpecTc == TcInit /\ [][TcNext]_vars

\* C3: after typecheck(name) threw, defs[name] is not an Ann marked done and no
\* type of name is cached, and every later typecheck(name) of the session
\* throws again; this includes definitions that refer to themselves.
C3_Rollback ==
    /\ (phase = "caller" /\ output # Idle /\ output.fn = "typecheck" /\ ~output.ok)
          => /\ ~(defs[output.name].tag = "Ann" /\ defs[output.name].done)
             /\ \A i \in DOMAIN output.cached : output.cached[i] # output.name
    /\ phase = "caller"
          => \A i \in DOMAIN input, j \in DOMAIN input :
                (/\ i < j
                 /\ input[i].fn = "typecheck" /\ input[j].fn = "typecheck"
                 /\ input[i].name = input[j].name
                 /\ ~input[i].ok) => ~input[j].ok

\* C9: type-checking Var i in a context of length L, i >= L, raises the
\* 'Unbound variable' error (also for L = 0 and i = 0) and yields no type.
C9_Unbound ==
    (phase = "caller" /\ output # Idle /\ output.fn = "var" /\ output.i >= output.L)
        => ~output.ok /\ output.err = "Unbound variable."

Reported(name) == \E i \in DOMAIN output.report : output.report[i].name = name
Resolved(name) == output.holes[name].value \notin {Undef, NullT}
Anonymous(name) == name # "" /\ Head(name) = "_"

\* C10 as stated: after a successful top-level check an unresolved hole whose
\* name begins with `_` is not reported, an unresolved hole whose name does not
\* begin with `_` is reported.
C10_AsStated ==
    (phase = "caller" /\ output # Idle /\ output.fn = "typecheck" /\ output.ok)
        => \A n \in DOMAIN output.holes :
              ~Resolved(n) => (Reported(n) <=> ~Anonymous(n))

\* C10 (amended): after a successful top-level check a hole whose name begins
\* with `_` is not reported when it is resolved; every unresolved hole is
\* reported, and so is every hole whose name does not begin with `_`.
C10_HoleReport ==
    (phase = "caller" /\ output # Idle /\ output.fn = "typecheck" /\ output.ok)
        => \A n \in DOMAIN output.holes :
              Reported(n) <=> (~Resolved(n) \/ ~Anonymous(n))

\* a successful check that left a resolved `_` hole, which is not reported, and
\* an unresolved `_` hole, which is
C10_Witness ==
    /\ phase = "caller" /\ output # Idle /\ output.fn = "typecheck" /\ output.ok
    /\ \E n \in DOMAIN output.holes, k \in DOMAIN output.holes :
          /\ Anonymous(n) /\ Resolved(n) /\ ~Reported(n)
          /\ Anonymous(k) /\ ~Resolved(k) /\ Reported(k)

(***************************************************************************)
(* Graph runtime (runtime-fast).  A pointer is a 32-bit word: constructor  *)
(* in the low 4 bits, address above.  The all-ones word NIL = 0xFFFFFFFF   *)
(* is written as the two's complement integer -1, so that ctor_of(NIL) is  *)
(* 15 and addr_of(NIL) is 0x0FFFFFFF as in JavaScript.  A memory is a      *)
(* sequence whose element i+1 is the cell at address i.  A cell holding    *)
(* JavaScript undefined is the word undefined_cell, on which `& 15` and    *)
(* `>>> 4` both give 0.                                                    *)
(***************************************************************************)
VAR == 0
LAM == 1
APP == 2
REF == 3
NIL == -1

undefined_cell == NIL - 15

\* (ctor + (addr << 4)) >>> 0: the shift keeps the low 28 bits of addr
New_ptr(ctor, addr) ==
    LET low == addr % 268435456
    IN  IF low < 134217728 THEN ctor + low * 16 ELSE ctor + (low - 268435456) * 16

ctor_of(ptr) == IF ptr = undefined_cell THEN 0 ELSE ptr % 16

addr_of(ptr) ==
    IF ptr = undefined_cell THEN 0
    ELSE IF ptr < 0 THEN 268435456 + (ptr \div 16)
    ELSE ptr \div 16

\* mem[addr]: reading past the end of an array gives undefined.
cell(m, addr) == IF addr >= 0 /\ addr < Len(m) THEN m[addr + 1] ELSE undefined_cell

\* mem[addr] = word: writing past the end of an array extends it.
store(m, addr, word) ==
    IF addr < Len(m) THEN [m EXCEPT ![addr + 1] = word]
    ELSE IF addr = Len(m) THEN Append(m, word)
    ELSE m \o [i \in 1..(addr - Len(m)) |-> undefined_cell] \o <<word>>

\* rt_rfid: the definitions are numbered in the order of the table.
rt_rfid(ds, name) == (CHOOSE i \in 1..Len(ds) : ds[i].name = name) - 1

\* compile's go: c = [mem, bind] is the memory and the binder table of the
\* definition being compiled; the result adds the pointer returned.
RECURSIVE rt_go(_, _, _, _, _)
rt_go(ds, vpos, term, depth, c) ==
    LET pos == Len(c.mem)
        ret(ptr, m, b) == [ptr |-> ptr, mem |-> m, bind |-> b]
    IN  CASE term.tag = "Var" ->
              LET k == depth - term.index - 1
              IN  IF k >= 0 /\ k < Len(c.bind)
                  THEN ret(NIL, store(c.mem, c.bind[k + 1], New_ptr(VAR, vpos)), c.bind)
                  ELSE ret(New_ptr(VAR, term.index), c.mem, c.bind)
          [] term.tag = "Lam" ->
              LET body(r) == ret(New_ptr(LAM, pos), store(r.mem, pos + 1, r.ptr), r.bind)
              IN  body(rt_go(ds, pos + 1, term.body, depth + 1,
                             [mem |-> c.mem \o <<NIL, NIL>>,
                              bind |-> store(c.bind, depth, pos)]))
          [] term.tag = "App" ->
              LET argm(r) == ret(New_ptr(APP, pos), store(r.mem, pos + 1, r.ptr), r.bind)
                  func(r) == argm(rt_go(ds, pos + 1, term.argm, depth,
                                        [mem |-> store(r.mem, pos, r.ptr), bind |-> r.bind]))
              IN  func(rt_go(ds, pos, term.func, depth,
                             [mem |-> c.mem \o <<NIL, NIL>>, bind |-> c.bind]))
          [] term.tag = "Ref" -> ret(New_ptr(REF, rt_rfid(ds, term.name)), c.mem, c.bind)
          [] OTHER -> ret(NIL, c.mem, c.bind)

\* compile(defs): element id+1 of the result is rt_defs[id].  The root of a
\* closed term is never the falsy word New(VAR, 0), so every entry is wrapped.
\* `alias` records that the entry's array is the one the reducer works on.
rt_compile(ds) ==
    LET wrap(r) == [mem |-> r.mem, ptr |-> r.ptr, alias |-> FALSE]
    IN  [i \in 1..Len(ds) |->
            wrap(rt_go(ds, 0, erase(ds[i].term), 0, [mem |-> <<>>, bind |-> <<>>]))]

\* decompile; the result is [term, mem] since bound-variable cells are written.
RECURSIVE rt_decompile(_, _, _)
rt_decompile(m, ptr, dep) ==
    LET addr == addr_of(ptr)
        ret(term, m2) == [term |-> term, mem |-> m2]
    IN  IF ptr = NIL THEN ret(Ref("*", Undef), m)
        ELSE CASE ctor_of(ptr) = LAM ->
                  LET vari == cell(m, addr)
                      m1 == IF vari # NIL THEN store(m, addr_of(vari), New_ptr(VAR, dep)) ELSE m
                      body(r) == ret(Lam("v" \o ToString(dep), NullT, r.term, FALSE), r.mem)
                  IN  body(rt_decompile(m1, cell(m1, addr + 1), dep + 1))
              [] ctor_of(ptr) = APP ->
                  LET argm(f, r) == ret(App(f, r.term, FALSE), r.mem)
                      func(r) == argm(r.term, rt_decompile(r.mem, cell(r.mem, addr + 1), dep))
                  IN  func(rt_decompile(m, cell(m, addr), dep))
              [] ctor_of(ptr) = REF -> ret(Ref("R" \o ToString(addr), FALSE), m)
              [] ctor_of(ptr) = VAR -> ret(Var(dep - addr - 1), m)
              [] OTHER -> ret(Undef, m)

\* collect's go: c = [mem, new_mem]; the result adds the pointer returned.
RECURSIVE rt_collect_go(_, _, _)
rt_collect_go(ptr, vpos, c) ==
    LET addr == addr_of(ptr)
        pos == Len(c.new_mem)
        ret(p, m, n) == [ptr |-> p, mem |-> m, new_mem |-> n]
    IN  CASE ctor_of(ptr) = LAM ->
              LET vari == cell(c.mem, addr)
                  m1 == IF vari # NIL THEN store(c.mem, addr_of(vari), New_ptr(VAR, pos))
                        ELSE c.mem
                  body(r) == ret(New_ptr(LAM, pos), r.mem, store(r.new_mem, pos + 1, r.ptr))
              IN  body(rt_collect_go(cell(m1, addr + 1), pos + 1,
                                     [mem |-> m1, new_mem |-> c.new_mem \o <<NIL, NIL>>]))
          [] ctor_of(ptr) = APP ->
              LET argm(r) == ret(New_ptr(APP, pos), r.mem, store(r.new_mem, pos + 1, r.ptr))
                  func(r) == argm(rt_collect_go(cell(r.mem, addr + 1), pos + 1,
                                     [mem |-> r.mem, new_mem |-> store(r.new_mem, pos, r.ptr)]))
              IN  func(rt_collect_go(cell(c.mem, addr), pos,
                                     [mem |-> c.mem, new_mem |-> c.new_mem \o <<NIL, NIL>>]))
          [] ctor_of(ptr) = REF -> ret(ptr, c.mem, c.new_mem \o <<NIL, NIL>>)
          [] ctor_of(ptr) = VAR -> ret(NIL, c.mem, store(c.new_mem, addr, New_ptr(VAR, vpos)))
          [] OTHER -> ret(undefined_cell, c.mem, c.new_mem)

\* collect(rt_term): [mem, ptr] of the compacted term, and the old array as
\* the traversal left it.
rt_collect(m, ptr) ==
    LET done(r) == [mem |-> r.new_mem, ptr |-> r.ptr, old |-> r.mem]
    IN  done(rt_collect_go(ptr, 0, [mem |-> m, new_mem |-> <<>>]))

(***************************************************************************)
(* reduce of the graph runtime, one action per iteration of its loop.  A   *)
(* back-stack entry is <<next, side, deph>>.  The reducer works on the     *)
(* array of the entry term itself, so the rt_defs entry marked `alias`     *)
(* follows every write until a collection gives the reducer a new array.   *)
(***************************************************************************)
top(b) == b[Len(b)]
pop(b) == SubSeq(b, 1, Len(b) - 1)
set_side(b, side) == [b EXCEPT ![Len(b)][2] = side]

\* rt_defs after the reducer's array became m
rt_touch(ds, m) == [i \in DOMAIN ds |-> IF ds[i].alias THEN [ds[i] EXCEPT !.mem = m] ELSE ds[i]]

\* rt_defs after the reducer dropped the array, left as m
rt_drop(ds, m) ==
    [i \in DOMAIN ds |-> IF ds[i].alias THEN [ds[i] EXCEPT !.mem = m, !.alias = FALSE] ELSE ds[i]]

\* "Connects parent to body": b is the back stack after back.pop()
rt_connect(b, m, r, subs) ==
    IF Len(b) > 0
    THEN [mem |-> store(m, addr_of(top(b)[1]) + top(b)[2], subs),
          back |-> set_side(b, 0), root |-> r]
    ELSE [mem |-> m, back |-> <<<<subs, 0, 0>>>>, root |-> subs]

\* the inner loop of the VAR case
RECURSIVE rt_unwind(_, _)
rt_unwind(b, m) ==
    IF Len(b) = 0 THEN b
    ELSE IF ctor_of(top(b)[1]) = APP /\ top(b)[2] = 0
         THEN Append(set_side(b, 1), <<cell(m, addr_of(top(b)[1]) + 1), 0, top(b)[3]>>)
         ELSE rt_unwind(pop(b), m)

\* the copy loop of the REF case: ref_mem appended to m, pointers shifted by pos
RECURSIVE rt_copy(_, _, _, _)
rt_copy(m, ref_mem, i, pos) ==
    IF i >= Len(ref_mem) THEN m
    ELSE LET ref_term == ref_mem[i + 1]
         IN  rt_copy(Append(m, IF ref_term # NIL /\ ctor_of(ref_term) # REF
                               THEN New_ptr(ctor_of(ref_term), addr_of(ref_term) + pos)
                               ELSE ref_term),
                     ref_mem, i + 1, pos)

Reducing == phase = "reduce" /\ Len(back) > 0
Visiting(ctor) == Reducing /\ Len(mem) <= collect_length /\ ctor_of(top(back)[1]) = ctor
GraphRest == <<holes, net, warp, prev, next>>

Compile ==
    /\ phase = "source"
    /\ defs' = rt_compile(input.defs)
    /\ phase' = "compiled"
    /\ UNCHANGED <<input, output, mem, root, back, collect_length, stats, GraphRest>>

ReduceStart ==
    /\ phase = "compiled"
    /\ LET id == rt_rfid(input.defs, input.name)
           rt_term == defs[id + 1]
       IN  /\ mem' = rt_term.mem
           /\ root' = rt_term.ptr
           /\ back' = <<<<rt_term.ptr, 0, 0>>>>
           /\ collect_length' = Len(rt_term.mem) * 8
           /\ defs' = [defs EXCEPT ![id + 1].alias = TRUE]
    /\ stats' = [beta |-> 0, copy |-> 0]
    /\ phase' = "reduce"
    /\ UNCHANGED <<input, output, GraphRest>>

ReduceCollect ==
    /\ Reducing /\ Len(mem) > collect_length
    /\ LET set(c) ==
              /\ mem' = c.mem
              /\ root' = c.ptr
              /\ back' = <<<<c.ptr, 0, 0>>>>
              /\ collect_length' = Len(c.mem) * 8
              /\ defs' = rt_drop(defs, c.old)
       IN  set(rt_collect(mem, root))
    /\ UNCHANGED <<phase, input, output, stats, GraphRest>>

ReduceLam ==
    /\ Visiting(LAM)
    /\ LET node == top(back)[1]
           deph == top(back)[3]
           vari == cell(mem, addr_of(node))
           m == IF vari # NIL THEN store(mem, addr_of(vari), New_ptr(VAR, deph)) ELSE mem
       IN  /\ mem' = m
           /\ back' = Append(set_side(back, 1), <<cell(m, addr_of(node) + 1), 0, deph + 1>>)
           /\ defs' = rt_touch(defs, m)
    /\ UNCHANGED <<phase, input, output, root, collect_length, stats, GraphRest>>

ReduceBeta ==
    /\ Visiting(APP)
    /\ ctor_of(cell(mem, addr_of(top(back)[1]))) = LAM
    /\ LET node == top(back)[1]
           func == cell(mem, addr_of(node))
           vari == cell(mem, addr_of(func))
           argm == cell(mem, addr_of(node) + 1)
           m == IF vari # NIL THEN store(mem, addr_of(vari), argm) ELSE mem
           set(c) == /\ mem' = c.mem /\ back' = c.back /\ root' = c.root
                     /\ defs' = rt_touch(defs, c.mem)
       IN  set(rt_connect(pop(back), m, root, cell(m, addr_of(func) + 1)))
    /\ stats' = [stats EXCEPT !.beta = @ + 1]
    /\ UNCHANGED <<phase, input, output, collect_length, GraphRest>>

ReduceApp ==
    /\ Visiting(APP)
    /\ ctor_of(cell(mem, addr_of(top(back)[1]))) # LAM
    /\ back' = Append(back, <<cell(mem, addr_of(top(back)[1])), 0, top(back)[3]>>)
    /\ UNCHANGED <<phase, input, output, mem, root, collect_length, stats, defs, GraphRest>>

ReduceRef ==
    /\ Visiting(REF)
    /\ ~defs[addr_of(top(back)[1]) + 1].alias
    /\ LET ref == defs[addr_of(top(back)[1]) + 1]
           pos == Len(mem) + 1
           subs == New_ptr(ctor_of(ref.ptr), addr_of(ref.ptr) + pos)
           set(c) == /\ mem' = c.mem /\ back' = c.back /\ root' = c.root
                     /\ defs' = rt_touch(defs, c.mem)
       IN  /\ set(rt_connect(pop(back), rt_copy(Append(mem, NIL), ref.mem, 0, pos), root, subs))
           /\ stats' = [stats EXCEPT !.copy = @ + Len(ref.mem)]
    /\ UNCHANGED <<phase, input, output, collect_length, GraphRest>>

ReduceVar ==
    /\ Visiting(VAR)
    /\ back' = rt_unwind(pop(back), mem)
    /\ UNCHANGED <<phase, input, output, mem, root, collect_length, stats, defs, GraphRest>>

\* No case of the switch matches the constructor (a NIL pointer has
\* constructor 15), or the copy loop of the REF case reads the array it is
\* appending to: the loop goes round without ever emptying the back stack.
ReduceSpins ==
    /\ Reducing /\ Len(mem) <= collect_length
    /\ \/ ctor_of(top(back)[1]) \notin {VAR, LAM, APP, REF}
       \/ ctor_of(top(back)[1]) = REF /\ defs[addr_of(top(back)[1]) + 1].alias
    /\ UNCHANGED vars

ReduceReturn ==
    /\ phase = "reduce" /\ Len(back) = 0
    /\ output' = [rt_term |-> [mem |-> mem, ptr |-> root], stats |-> stats]
    /\ phase' = "reduced"
    /\ UNCHANGED <<input, mem, root, back, collect_length, stats, defs, GraphRest>>

Decompile ==
    /\ phase = "reduced"
    /\ LET set(r) == /\ output' = r.term /\ mem' = r.mem /\ defs' = rt_touch(defs, r.mem)
       IN  set(rt_decompile(output.rt_term.mem, output.rt_term.ptr, 0))
    /\ phase' = "decompiled"
    /\ UNCHANGED <<input, root, back, collect_length, stats, GraphRest>>

(***************************************************************************)
(* SpecGraph: compile, reduce and decompile an entry term `main` over a    *)
(* fixed library of definitions.  Every entry term is closed and has a     *)
(* normal form.                                                            *)
(***************************************************************************)
TermI == Lam("x", NullT, Var(0), FALSE)
TermK == Lam("x", NullT, Lam("y", NullT, Var(1), FALSE), FALSE)
TermW == Lam("x", NullT, App(Var(0), Var(0), FALSE), FALSE)
TermPair ==
    Lam("a", NullT, Lam("b", NullT, Lam("f", NullT,
        App(App(Var(0), Var(2), FALSE), Var(1), FALSE), FALSE), FALSE), FALSE)

GraphLibrary ==
    << [name |-> "id", term |-> TermI],
       [name |-> "k", term |-> TermK],
       [name |-> "pair", term |-> TermPair],
       [name |-> "w", term |-> TermW],
       [name |-> "five", term |-> Val(5)] >>

\* affine lambda terms: closed under application, all of them terminate
AffineAtoms == {TermI, TermK, Ref("id", FALSE), Ref("k", FALSE), Ref("pair", FALSE)}
AffineApps == {App(f, a, FALSE) : f \in AffineAtoms, a \in AffineAtoms}
AffineMains ==
    AffineAtoms \cup AffineApps
        \cup {App(f, a, FALSE) : f \in AffineApps, a \in AffineAtoms}
        \cup {Lam("z", NullT, App(Var(0), a, FALSE), FALSE) : a \in AffineAtoms}
        \cup {Ann(Typ, TermI, FALSE), App(TermK, Typ, TRUE),
              Lam("t", Typ, Lam("x", Var(0), Var(0), FALSE), TRUE),
              Lam("x", NullT, App(TermI, Var(0), FALSE), FALSE),
              Lam("a", NullT, Lam("x", NullT, App(TermI, Var(0), FALSE), FALSE), FALSE)}

\* terms that use a variable twice, and terms with numbers
OtherMains ==
    { TermW, Ref("w", FALSE), App(TermW, TermI, FALSE),
      App(Ref("w", FALSE), Ref("id", FALSE), FALSE),
      App(TermK, TermW, FALSE), App(App(TermK, TermI, FALSE), TermW, FALSE),
      Val(5), Ref("five", FALSE), App(TermI, Val(5), FALSE),
      App(Ref("id", FALSE), Val(5), FALSE), Op2(".+.", Val(1), Val(2)),
      App(App(TermK, TermI, FALSE), Val(5), FALSE),
      Lam("x", NullT, Op1(".+.", Var(0), Val(1)), FALSE) }

GraphInputs ==
    {[name |-> "main", defs |-> <<[name |-> "main", term |-> t]>> \o GraphLibrary] :
        t \in AffineMains \cup OtherMains}

GraphInit ==
    /\ phase = "source"
    /\ input \in GraphInputs
    /\ output = Idle
    /\ mem = <<>> /\ root = 0 /\ back = <<>> /\ collect_length = 0 /\ stats = Idle
    /\ holes = NoHoles /\ defs = <<>> /\ net = Idle /\ warp = <<>> /\ prev = Idle /\ next = Idle

GraphNext ==
    \/ Compile
    \/ ReduceStart
    \/ ReduceCollect
    \/ ReduceLam
    \/ ReduceBeta
    \/ ReduceApp
    \/ ReduceRef
    \/ ReduceVar
    \/ ReduceSpins
    \/ ReduceReturn
    \/ Decompile

SpecGraph == GraphInit /\ [][GraphNext]_vars

\* the definition table as the term reducer takes it
DefsOf(ds) == [n \in {ds[i].name : i \in 1..Len(ds)} |->
                  ds[CHOOSE i \in 1..Len(ds) : ds[i].name = n].term]

\* the entry term of the running scenario
MainTerm == DefsOf(input.defs)[input.name]

\* a term with its bound-variable names blanked
RECURSIVE Nameless(_)
Nameless(t) ==
    CASE t.tag = "Lam" ->
            Lam("", IF t.bind = NullT THEN NullT ELSE Nameless(t.bind), Nameless(t.body), t.eras)
      [] t.tag = "App" -> App(Nameless(t.func), Nameless(t.argm), t.eras)
      [] t.tag \in {"Op1", "Op2"} ->
            [t EXCEPT !.num0 = Nameless(t.num0), !.num1 = Nameless(t.num1)]
      [] t.tag = "Ite" ->
            Ite(Nameless(t.cond), Nameless(t.if_t), Nameless(t.if_f))
      [] OTHER -> t

\* the loop of reduce can make no further progress
Spinning == ENABLED ReduceSpins

\* what the term reducer gives for the entry term
TermNormal == normal(erase(MainTerm), DefsOf(input.defs))

GraphAgrees == phase = "decompiled" => Nameless(output) = Nameless(TermNormal)

\* C1: for every closed, terminating term, reduce on the compiled entry term
\* returns, and decompiling what it returns gives the term reducer's normal
\* form of the erased term up to bound-variable names.
C1_GraphAgrees == GraphAgrees /\ ~Spinning

(***************************************************************************)
(* Interaction-net runtime.  A net N is [nodes, freed, redex, find_redex]; *)
(* nodes is the flat array of the source: cell addr*4+slot is port slot of *)
(* node addr for slot 0..2, and cell addr*4+3 is the info word             *)
(* (kind << 6) + (type << 3) + the three is-numeric flags.  The field      *)
(* thrown holds the message of an exception on its way out of a method,    *)
(* "" when there is none.                                                  *)
(***************************************************************************)
PTR == 0
NUM == 1

NOD == 0
OP1 == 1
OP2 == 2
ITE == 3

Pointer(addr, port) == [typ |-> PTR, val |-> addr * 4 + (port % 4)]
addr_of_1(ptrn) == IF ptrn.val < 0 THEN 1073741824 + (ptrn.val \div 4) ELSE ptrn.val \div 4
slot_of(ptrn) == ptrn.val % 4
Numeric(numb) == [typ |-> NUM, val |-> numb]
numb_of(ptrn) == ptrn.val
type_of(ptrn) == ptrn.typ
ptrn_eq(a, b) == a.typ = b.typ /\ a.val = b.val

\* new Net()
NetNew == [nodes |-> <<>>, freed |-> <<>>, redex |-> <<>>, find_redex |-> TRUE, thrown |-> ""]

\* an exception is propagating: the statements after the throw do not run
raised(N) == N.thrown # ""

\* the address alloc_node is going to return
alloc_addr(N) == IF Len(N.freed) > 0 THEN N.freed[Len(N.freed)] ELSE Len(N.nodes) \div 4

\* the three ports pointing to themselves
empty_node(nodes, addr, info) ==
    store(store(store(store(nodes, addr * 4, addr * 4), addr * 4 + 1, addr * 4 + 1),
                addr * 4 + 2, addr * 4 + 2), addr * 4 + 3, info)

alloc_node(N, type, kind) ==
    [N EXCEPT !.nodes = empty_node(N.nodes, alloc_addr(N), kind * 64 + (type % 8) * 8),
              !.freed = IF Len(N.freed) > 0 THEN pop(N.freed) ELSE N.freed]

free_node(N, addr) ==
    [N EXCEPT !.nodes = empty_node(N.nodes, addr, 0), !.freed = Append(N.freed, addr)]

is_free(N, addr) ==
    /\ cell(N.nodes, addr * 4) = addr * 4
    /\ cell(N.nodes, addr * 4 + 1) = addr * 4 + 1
    /\ cell(N.nodes, addr * 4 + 2) = addr * 4 + 2
    /\ cell(N.nodes, addr * 4 + 3) = 0

info_of(N, addr) == cell(N.nodes, addr * 4 + 3)

is_numeric(N, addr, slot) == (info_of(N, addr) \div (2 ^ slot)) % 2 = 1

set_port(N, addr, slot, ptrn) ==
    LET flag == IF is_numeric(N, addr, slot) THEN 2 ^ slot ELSE 0
    IN  IF type_of(ptrn) = NUM
        THEN [N EXCEPT !.nodes = store(store(N.nodes, addr * 4 + slot, numb_of(ptrn)),
                                       addr * 4 + 3, info_of(N, addr) - flag + 2 ^ slot)]
        ELSE [N EXCEPT !.nodes = store(store(N.nodes, addr * 4 + slot,
                                             addr_of_1(ptrn) * 4 + slot_of(ptrn)),
                                       addr * 4 + 3, info_of(N, addr) - flag)]

get_port(N, addr, slot) ==
    LET val == cell(N.nodes, addr * 4 + slot)
    IN  IF ~is_numeric(N, addr, slot) THEN [typ |-> PTR, val |-> val] ELSE Numeric(val)

node_type_of(N, addr) == (info_of(N, addr) \div 8) % 8

set_type(N, addr, type) ==
    [N EXCEPT !.nodes = store(N.nodes, addr * 4 + 3,
                              info_of(N, addr) - node_type_of(N, addr) * 8 + type * 8)]

kind_of(N, addr) == info_of(N, addr) \div 64

\* every caller passes a pointer, so "Can't enter a numeric pointer." is not raised
enter_port(N, ptrn) == get_port(N, addr_of_1(ptrn), slot_of(ptrn))

link_ports(N, a_ptrn, b_ptrn) ==
    LET a_numb == type_of(a_ptrn) = NUM
        b_numb == type_of(b_ptrn) = NUM
        seta(M) == IF ~a_numb THEN set_port(M, addr_of_1(a_ptrn), slot_of(a_ptrn), b_ptrn) ELSE M
        setb(M) == IF ~b_numb THEN set_port(M, addr_of_1(b_ptrn), slot_of(b_ptrn), a_ptrn) ELSE M
        push(M) ==
            IF /\ M.find_redex /\ ~(a_numb /\ b_numb)
               /\ (a_numb \/ slot_of(a_ptrn) = 0) /\ (b_numb \/ slot_of(b_ptrn) = 0)
            THEN [M EXCEPT !.redex = Append(@, IF a_numb THEN addr_of_1(b_ptrn)
                                                ELSE addr_of_1(a_ptrn))]
            ELSE M
    IN  IF raised(N) THEN N ELSE push(setb(seta(N)))

\* link_ports(a_ptrn, this.enter_port(b_port))
link_enter(N, a_ptrn, b_port) == link_ports(N, a_ptrn, enter_port(N, b_port))

\* link_ports(this.enter_port(a_port), this.enter_port(b_port))
link_enters(N, a_port, b_port) == link_ports(N, enter_port(N, a_port), enter_port(N, b_port))

unlink_port(N, a_ptrn) ==
    LET both(b_ptrn) ==
            IF type_of(b_ptrn) = PTR /\ ptrn_eq(enter_port(N, b_ptrn), a_ptrn)
            THEN set_port(set_port(N, addr_of_1(a_ptrn), slot_of(a_ptrn), a_ptrn),
                          addr_of_1(b_ptrn), slot_of(b_ptrn), b_ptrn)
            ELSE N
    IN  IF raised(N) THEN N
        ELSE IF type_of(a_ptrn) = PTR THEN both(enter_port(N, a_ptrn)) ELSE N

\* op_kind: the operator table, read from names to codes and from codes to names
OpTable ==
    << ".+.", ".-.", ".*.", "./.", ".%.", ".**.", ".&.", ".|.", ".^.", ".~.",
       ".>>>.", ".<<.", ".>.", ".<.", ".==." >>
op_kind(func) == (CHOOSE i \in 1..Len(OpTable) : OpTable[i] = func) - 1
op_name(kind) == IF kind < Len(OpTable) THEN OpTable[kind + 1] ELSE "undefined"

\* the switch of the OP1-numeric rule: & | ^ are not followed by >>> 0
net_op1(kind, fst, snd) ==
    CASE kind = 6 -> BitOp("and", ToInt32(fst), ToInt32(snd))
      [] kind = 7 -> BitOp("or", ToInt32(fst), ToInt32(snd))
      [] kind = 8 -> BitOp("xor", ToInt32(fst), ToInt32(snd))
      [] OTHER -> op1_numb(op_name(kind), fst, snd)

invalid_interaction(N) == [N EXCEPT !.thrown = "[ERROR]\nInvalid interaction."]

unlink_if(N, cond, ptrn) == IF cond THEN unlink_port(N, ptrn) ELSE N

\* for (i = 0; i < 3; i++) { unlink a.i; unlink b.i }; free a; free b unless a = b
RECURSIVE unlink_pair(_, _, _, _)
unlink_pair(N, a_addr, b_addr, i) ==
    IF i >= 3 THEN N
    ELSE unlink_pair(unlink_port(unlink_port(N, Pointer(a_addr, i)), Pointer(b_addr, i)),
                     a_addr, b_addr, i + 1)

free_if(N, cond, addr) == IF cond THEN free_node(N, addr) ELSE N

free_pair(N, a_addr, b_addr) ==
    free_if(free_node(unlink_pair(N, a_addr, b_addr, 0), a_addr), a_addr # b_addr, b_addr)

\* NodeAnnihilation, UnaryAnnihilation, BinaryAnnihilation
annihilate(N, a_addr, b_addr) ==
    free_pair(link_enters(link_enters(N, Pointer(a_addr, 1), Pointer(b_addr, 1)),
                          Pointer(a_addr, 2), Pointer(b_addr, 2)),
              a_addr, b_addr)

\* NodeDuplication, BinaryDuplication, after the four nodes were allocated
duplicate_links(N, a_addr, b_addr, p, q, r, s) ==
    free_pair(
        link_enter(link_enter(link_enter(link_enter(
            link_ports(link_ports(link_ports(link_ports(N,
                Pointer(r, 1), Pointer(p, 1)),
                Pointer(s, 1), Pointer(p, 2)),
                Pointer(r, 2), Pointer(q, 1)),
                Pointer(s, 2), Pointer(q, 2)),
            Pointer(p, 0), Pointer(a_addr, 1)),
            Pointer(q, 0), Pointer(a_addr, 2)),
            Pointer(r, 0), Pointer(b_addr, 1)),
            Pointer(s, 0), Pointer(b_addr, 2)),
        a_addr, b_addr)

duplicate(N, a_addr, b_addr, a_type, a_kind, b_type, b_kind) ==
    LET with_s(N4, p, q, r, s) == duplicate_links(N4, a_addr, b_addr, p, q, r, s)
        with_r(N3, p, q, r) == with_s(alloc_node(N3, a_type, a_kind), p, q, r, alloc_addr(N3))
        with_q(N2, p, q) == with_r(alloc_node(N2, a_type, a_kind), p, q, alloc_addr(N2))
        with_p(N1, p) == with_q(alloc_node(N1, b_type, b_kind), p, alloc_addr(N1))
    IN  with_p(alloc_node(N, b_type, b_kind), alloc_addr(N))

\* UnaryDuplication, after the three nodes were allocated
duplicate_unary_links(N, a_addr, b_addr, p, q, s) ==
    free_pair(
        link_enter(link_enter(link_enter(
            link_ports(link_ports(
                link_enter(link_enter(N,
                    Pointer(p, 1), Pointer(b_addr, 1)),
                    Pointer(q, 1), Pointer(b_addr, 1)),
                Pointer(s, 1), Pointer(p, 2)),
                Pointer(s, 2), Pointer(q, 2)),
            Pointer(p, 0), Pointer(a_addr, 1)),
            Pointer(q, 0), Pointer(a_addr, 2)),
            Pointer(s, 0), Pointer(b_addr, 2)),
        a_addr, b_addr)

duplicate_unary(N, a_addr, b_addr, a_type, a_kind, b_type, b_kind) ==
    LET with_s(N3, p, q, s) == duplicate_unary_links(N3, a_addr, b_addr, p, q, s)
        with_q(N2, p, q) == with_s(alloc_node(N2, a_type, a_kind), p, q, alloc_addr(N2))
        with_p(N1, p) == with_q(alloc_node(N1, b_type, b_kind), p, alloc_addr(N1))
    IN  with_p(alloc_node(N, b_type, b_kind), alloc_addr(N))

\* a test of the condition that takes every number that is not positive for 0
cond_not_positive(numb) == ~(numb > 0)

\* var cond_val = numb_of(b_ptrn) === 0
cond_is_zero(numb) == numb = 0

\* the rules for a node whose principal port holds the number b_ptrn
rewrite_numeric(N, a_addr, b_ptrn) ==
    LET a_type == node_type_of(N, a_addr)
        a_kind == kind_of(N, a_addr)
        cond_val == cond_is_zero(numb_of(b_ptrn))
    IN  CASE a_type = OP1 ->
              IF a_kind >= Len(OpTable) THEN invalid_interaction(N)
              ELSE free_node(
                     unlink_port(
                       unlink_port(
                         link_ports(N, enter_port(N, Pointer(a_addr, 2)),
                                    Numeric(net_op1(a_kind, numb_of(b_ptrn),
                                            numb_of(enter_port(N, Pointer(a_addr, 1)))))),
                         Pointer(a_addr, 0)),
                       Pointer(a_addr, 2)),
                     a_addr)
          [] a_type = OP2 ->
              link_ports(
                unlink_port(
                  link_enter(set_type(N, a_addr, OP1), Pointer(a_addr, 0), Pointer(a_addr, 1)),
                  Pointer(a_addr, 1)),
                Pointer(a_addr, 1), b_ptrn)
          [] a_type = NOD ->
              free_node(
                link_enter(link_enter(N, b_ptrn, Pointer(a_addr, 1)), b_ptrn, Pointer(a_addr, 2)),
                a_addr)
          [] a_type = ITE ->
              link_ports(
                unlink_if(
                  link_enter(
                    unlink_port(
                      link_enter(set_type(N, a_addr, NOD), Pointer(a_addr, 0), Pointer(a_addr, 1)),
                      Pointer(a_addr, 1)),
                    Pointer(a_addr, IF cond_val THEN 2 ELSE 1), Pointer(a_addr, 2)),
                  ~cond_val, Pointer(a_addr, 2)),
                Pointer(a_addr, IF cond_val THEN 1 ELSE 2),
                Pointer(a_addr, IF cond_val THEN 1 ELSE 2))
          [] OTHER -> invalid_interaction(N)

\* rewrite(a_addr): rewrites an active pair
RECURSIVE rewrite(_, _)
rewrite(N, a_addr) ==
    LET b_ptrn == get_port(N, a_addr, 0)
        b_addr == addr_of_1(b_ptrn)
        a_type == node_type_of(N, a_addr)
        b_type == node_type_of(N, b_addr)
        a_kind == kind_of(N, a_addr)
        b_kind == kind_of(N, b_addr)
    IN  IF type_of(b_ptrn) = NUM THEN rewrite_numeric(N, a_addr, b_ptrn)
        ELSE IF \/ a_type = NOD /\ b_type = NOD /\ a_kind = b_kind
                \/ a_type = OP1 /\ b_type = OP1
                \/ a_type = OP2 /\ b_type = OP2
                \/ a_type = ITE /\ b_type = ITE
        THEN annihilate(N, a_addr, b_addr)
        ELSE IF \/ a_type = NOD /\ b_type = NOD /\ a_kind # b_kind
                \/ a_type = NOD /\ b_type = OP2
                \/ a_type = NOD /\ b_type = ITE
        THEN duplicate(N, a_addr, b_addr, a_type, a_kind, b_type, b_kind)
        ELSE IF \/ a_type = NOD /\ b_type = OP1
                \/ a_type = ITE /\ b_type = OP1
        THEN duplicate_unary(N, a_addr, b_addr, a_type, a_kind, b_type, b_kind)
        ELSE IF b_type = NOD /\ a_type \in {OP1, OP2, ITE}
        THEN rewrite(N, b_addr)
        ELSE invalid_interaction(N)

(***************************************************************************)
(* compile (terms to nets).  build_net works on B = [net, ref_ptrs,        *)
(* labels]: ref_ptrs lists [name, ptrn] in insertion order, labels is the  *)
(* sequence of numbers Math.random is going to deliver for duplicator      *)
(* kinds, and short records that the sequence ran out.  The result adds    *)
(* the pointer returned.  The constructors Dup, Put, Par, Fst, Snd, Prj    *)
(* and Utv do not exist in the term language and have no case here.        *)
(***************************************************************************)
KIND_REF == 65533
KIND_PAR == 65535

ref_lookup(ref_ptrs, name) ==
    IF \E i \in 1..Len(ref_ptrs) : ref_ptrs[i].name = name
    THEN ref_ptrs[CHOOSE i \in 1..Len(ref_ptrs) : ref_ptrs[i].name = name].ptrn
    ELSE Undef

built(ptr, B) == [ptr |-> ptr, net |-> B.net, ref_ptrs |-> B.ref_ptrs, labels |-> B.labels,
                  short |-> B.short]

on_net(B, N) == [B EXCEPT !.net = N]

\* a second use of a variable or of a reference: a new duplicator in front of it
extend_dup(B, ptrn, kind) ==
    LET dup_addr == alloc_addr(B.net)
        dups_ptrn == enter_port(B.net, ptrn)
    IN  built(Pointer(dup_addr, 2),
              on_net(B, link_ports(link_ports(alloc_node(B.net, NOD, kind),
                                              Pointer(dup_addr, 0), ptrn),
                                   Pointer(dup_addr, 1), dups_ptrn)))

get_var(B, ptrn) ==
    IF ptrn = Undef THEN built(Pointer(0, 0), on_net(B, [B.net EXCEPT !.thrown = "TypeError"]))
    ELSE IF type_of(ptrn) = NUM THEN built(ptrn, B)
    ELSE IF ptrn_eq(enter_port(B.net, ptrn), ptrn) THEN built(ptrn, B)
    ELSE IF Len(B.labels) = 0 THEN built(ptrn, [B EXCEPT !.short = TRUE])
    ELSE extend_dup([B EXCEPT !.labels = Tail(@)], ptrn, Head(B.labels))

RECURSIVE build_net(_, _, _, _)
build_net(term, B, var_ptrs, ds) ==
    LET addr == alloc_addr(B.net)
        link(r, a_ptrn) == on_net(r, link_ports(r.net, a_ptrn, r.ptr))
    IN  CASE term.tag = "Lam" ->
              LET body(r) == built(Pointer(addr, 0), link(r, Pointer(addr, 2)))
              IN  body(build_net(term.body,
                                 on_net(B, link_ports(alloc_node(B.net, NOD, 0),
                                                      Pointer(addr, 1), Pointer(addr, 1))),
                                 Append(var_ptrs, Pointer(addr, 1)), ds))
          [] term.tag = "App" ->
              LET argm(r) == built(Pointer(addr, 2), link(r, Pointer(addr, 1)))
                  func(r) == argm(build_net(term.argm, link(r, Pointer(addr, 0)), var_ptrs, ds))
              IN  func(build_net(term.func, on_net(B, alloc_node(B.net, NOD, 0)), var_ptrs, ds))
          [] term.tag = "Val" -> built(Numeric(term.numb), B)
          [] term.tag = "Op1" ->
              LET numb == IF term.num1.tag = "Val" THEN term.num1.numb ELSE undefined_cell
                  num0(r) == built(Pointer(addr, 2),
                                   on_net(r, link_ports(r.net, r.ptr, Pointer(addr, 0))))
              IN  num0(build_net(term.num0,
                                 on_net(B, link_ports(alloc_node(B.net, OP1, op_kind(term.func)),
                                                      Numeric(numb), Pointer(addr, 1))),
                                 var_ptrs, ds))
          [] term.tag = "Op2" ->
              LET num1(r) == built(Pointer(addr, 2), link(r, Pointer(addr, 0)))
                  num0(r) == num1(build_net(term.num1, link(r, Pointer(addr, 1)), var_ptrs, ds))
              IN  num0(build_net(term.num0,
                                 on_net(B, alloc_node(B.net, OP2, op_kind(term.func))),
                                 var_ptrs, ds))
          [] term.tag = "Ite" ->
              LET pair(r, if_t_ptr, par_addr) ==
                      built(Pointer(addr, 2),
                            on_net(r, link_ports(link_ports(link_ports(
                                          alloc_node(r.net, NOD, KIND_PAR),
                                          Pointer(par_addr, 1), if_t_ptr),
                                          Pointer(par_addr, 2), r.ptr),
                                          Pointer(addr, 1), Pointer(par_addr, 0))))
                  if_f(r, if_t_ptr) == pair(r, if_t_ptr, alloc_addr(r.net))
                  if_t(r) == if_f(build_net(term.if_f, r, var_ptrs, ds), r.ptr)
                  cond(r) == if_t(build_net(term.if_t, link(r, Pointer(addr, 0)), var_ptrs, ds))
              IN  cond(build_net(term.cond, on_net(B, alloc_node(B.net, ITE, KIND_PAR)),
                                 var_ptrs, ds))
          [] term.tag = "Log" -> build_net(term.expr, B, var_ptrs, ds)
          [] term.tag = "Var" ->
              get_var(B, IF term.index >= 0 /\ term.index < Len(var_ptrs)
                         THEN var_ptrs[Len(var_ptrs) - term.index] ELSE Undef)
          [] term.tag = "Hol" ->
              built(Pointer(0, 0),
                    on_net(B, [B.net EXCEPT !.thrown = "[ERROR]\nCan't compile a hole."]))
          [] term.tag = "Ref" ->
              LET ref_ptrn == ref_lookup(B.ref_ptrs, term.name)
                  dref(r) == built(Pointer(addr, 2), link(r, Pointer(addr, 0)))
              IN  IF ref_ptrn = Undef
                  THEN dref(build_net(erase(ds[term.name]),
                                      [B EXCEPT !.net = alloc_node(B.net, NOD, KIND_REF),
                                                !.ref_ptrs = Append(@, [name |-> term.name,
                                                                       ptrn |-> Pointer(addr, 1)])],
                                      var_ptrs, ds))
                  ELSE IF ptrn_eq(enter_port(B.net, ref_ptrn), ref_ptrn) THEN built(ref_ptrn, B)
                  ELSE extend_dup(B, ref_ptrn, KIND_REF)
          [] OTHER -> build_net(Lam("", NullT, Var(0), FALSE), B, var_ptrs, ds)

\* a filter that keeps the pairs of nodes only
redex_valid_pointers(N, a_addr) ==
    LET b_ptrn == enter_port(N, Pointer(a_addr, 0))
        a_p0 == Pointer(a_addr, 0)
        b_p0 == Pointer(addr_of_1(b_ptrn), 0)
    IN  /\ type_of(b_ptrn) # NUM
        /\ ptrn_eq(enter_port(N, a_p0), b_p0) /\ ptrn_eq(enter_port(N, b_p0), a_p0)

\* "Removes invalid redexes"
redex_valid(N, a_addr) ==
    LET b_ptrn == enter_port(N, Pointer(a_addr, 0))
        a_p0 == Pointer(a_addr, 0)
        b_p0 == Pointer(addr_of_1(b_ptrn), 0)
    IN  IF type_of(b_ptrn) # NUM
        THEN ptrn_eq(enter_port(N, a_p0), b_p0) /\ ptrn_eq(enter_port(N, b_p0), a_p0)
        ELSE TRUE

filter_redex(N) == [N EXCEPT !.redex = SelectSeq(N.redex, LAMBDA a_addr : redex_valid(N, a_addr))]

\* "if a ref is only used once, remove the unecessary dup node"
RECURSIVE unshare_refs(_, _, _)
unshare_refs(N, ref_ptrs, i) ==
    IF i > Len(ref_ptrs) THEN N
    ELSE LET ref_ptrn == ref_ptrs[i].ptrn
             dup_addr == addr_of_1(ref_ptrn)
         IN  unshare_refs(
                 IF ptrn_eq(enter_port(N, ref_ptrn), ref_ptrn)
                 THEN free_node(link_enters(N, Pointer(dup_addr, 0), Pointer(dup_addr, 2)),
                                dup_addr)
                 ELSE N,
                 ref_ptrs, i + 1)

\* compile(term, defs) with the random numbers `labels`; root_addr is 0
net_compile(term, ds, labels) ==
    LET done(r) ==
            [net |-> unshare_refs(
                        filter_redex(link_ports(link_ports(r.net, Pointer(0, 0), Pointer(0, 2)),
                                                Pointer(0, 1), r.ptr)),
                        r.ref_ptrs, 1),
             short |-> r.short]
    IN  done(build_net(term,
                       [net |-> alloc_node(NetNew, NOD, 0), ref_ptrs |-> <<>>,
                        labels |-> labels, short |-> FALSE],
                       <<>>, ds))

(***************************************************************************)
(* decompile (nets to terms).  dup_exit is one array shared by the whole   *)
(* traversal, so build_term returns it next to the term.  Par(), Fst() and *)
(* Snd() are stubs that return undefined.                                  *)
(***************************************************************************)
var_index(var_ptrs, ptrn) ==
    LET found == {index \in 0..(Len(var_ptrs) - 1) : ptrn_eq(var_ptrs[Len(var_ptrs) - index], ptrn)}
    IN  IF found = {} THEN -1 ELSE CHOOSE index \in found : \A other \in found : index <= other

\* Pointer(addr, exit) where exit may be undefined
exit_port(exit) == IF exit = undefined_cell THEN 0 ELSE exit

\* the deepest nesting of build_term calls the stack of the engine holds
MaxStack == 12
RangeError == "RangeError: Maximum call stack size exceeded"

\* build_term returns [term, dup_exit, thrown]; a thrown result unwinds the callers
RECURSIVE build_term(_, _, _, _, _)
build_term(N, ptrn, var_ptrs, dup_exit, depth) ==
    LET addr == addr_of_1(ptrn)
        type == node_type_of(N, addr)
        kind == kind_of(N, addr)
        ret(term, exits) == [term |-> term, dup_exit |-> exits, thrown |-> FALSE]
        go(port, exits) ==
            build_term(N, enter_port(N, Pointer(addr, port)), var_ptrs, exits, depth + 1)
        app == LET func(a, r) == IF r.thrown THEN r ELSE ret(App(r.term, a, FALSE), r.dup_exit)
                   argm(r) == IF r.thrown THEN r ELSE func(r.term, go(0, r.dup_exit))
               IN  argm(go(1, dup_exit))
        skip(r) == IF r.thrown THEN r ELSE ret(Undef, r.dup_exit)
    IN  IF depth > MaxStack THEN [term |-> Undef, dup_exit |-> dup_exit, thrown |-> TRUE]
        ELSE IF type_of(ptrn) = NUM THEN ret(Val(numb_of(ptrn)), dup_exit)
        ELSE IF type = NOD /\ kind = 0 THEN
            CASE slot_of(ptrn) = 0 ->
                  LET body(r) ==
                          IF r.thrown THEN r
                          ELSE ret(Lam("x" \o ToString(Len(var_ptrs)), NullT, r.term, FALSE),
                                   r.dup_exit)
                  IN  body(build_term(N, enter_port(N, Pointer(addr, 2)),
                                      Append(var_ptrs, Pointer(addr, 1)), dup_exit, depth + 1))
              [] slot_of(ptrn) = 1 /\ var_index(var_ptrs, ptrn) >= 0 ->
                  ret(Var(var_index(var_ptrs, ptrn)), dup_exit)
              [] slot_of(ptrn) \in {1, 2} -> app
              [] OTHER -> ret(Undef, dup_exit)
        ELSE IF type = NOD /\ kind = KIND_PAR THEN
            CASE slot_of(ptrn) = 0 ->
                  LET val0(r) == IF r.thrown THEN r ELSE skip(go(2, r.dup_exit))
                  IN  val0(go(1, dup_exit))
              [] slot_of(ptrn) \in {1, 2} -> skip(go(0, dup_exit))
              [] OTHER -> ret(Undef, dup_exit)
        ELSE IF type = NOD THEN
            IF slot_of(ptrn) = 0
            THEN LET exit == IF Len(dup_exit) > 0 THEN dup_exit[Len(dup_exit)] ELSE undefined_cell
                     rest == IF Len(dup_exit) > 0 THEN pop(dup_exit) ELSE dup_exit
                     back_in(r) == IF r.thrown THEN r ELSE ret(r.term, Append(r.dup_exit, exit))
                 IN  back_in(go(exit_port(exit), rest))
            ELSE LET back_out(r) == IF r.thrown THEN r ELSE ret(r.term, pop(r.dup_exit))
                 IN  back_out(go(0, Append(dup_exit, slot_of(ptrn))))
        ELSE IF type = OP1 THEN
            LET num0(r) ==
                    IF r.thrown THEN r
                    ELSE ret(Op1(op_name(kind), r.term,
                                 Val(numb_of(enter_port(N, Pointer(addr, 1))))), r.dup_exit)
            IN  num0(go(0, dup_exit))
        ELSE IF type = OP2 THEN
            LET num1(n0, r) == IF r.thrown THEN r ELSE ret(Op2(op_name(kind), n0, r.term), r.dup_exit)
                num0(r) == IF r.thrown THEN r ELSE num1(r.term, go(0, r.dup_exit))
            IN  num0(go(1, dup_exit))
        ELSE IF type = ITE THEN
            LET pair(c, r) == IF r.thrown THEN r ELSE ret(Ite(c, r.term, Undef), r.dup_exit)
                cond(r) == IF r.thrown THEN r ELSE pair(r.term, go(1, r.dup_exit))
            IN  cond(go(0, dup_exit))
        ELSE ret(Undef, dup_exit)

net_decompile(N) ==
    LET done(r) == IF r.thrown THEN [thrown |-> RangeError] ELSE r.term
    IN  done(build_term(N, enter_port(N, Pointer(0, 1)), <<>>, <<>>, 0))

(***************************************************************************)
(* The schedulers, one action per rewrite (strict) or per iteration of the *)
(* walk (lazy).  phase is [at, i, l]: i and l are the counters of the for  *)
(* loop of reduce_strict.  input is [term, defs, lazy].                    *)
(***************************************************************************)
Stage(where) == [at |-> where, i |-> 0, l |-> 0]

\* a reduction is followed for this many rewrites (strict) or iterations (lazy)
MaxRewrites == 24
MaxLoops == 80
NetRest == <<mem, root, collect_length, holes, defs>>

max(a, b) == IF a >= b THEN a ELSE b

\* compile(erase(term), defs); Math.random delivers `labels`
NetCompile(labels) ==
    /\ phase = Stage("source")
    /\ LET set(c) ==
              /\ ~c.short
              /\ net' = c.net
              /\ phase' = IF c.net.thrown # "" THEN Stage("threw") ELSE Stage("compiled")
              /\ output' = IF c.net.thrown # "" THEN [thrown |-> c.net.thrown] ELSE output
       IN  set(net_compile(erase(input.term), input.defs, labels))
    /\ stats' = [rewrites |-> 0, loops |-> 0, max_len |-> 0]
    /\ UNCHANGED <<input, back, warp, prev, next, NetRest>>

\* reduce_strict: the first test of the while loop and the start of a pass
StrictStart ==
    /\ phase = Stage("compiled") /\ ~input.lazy
    /\ phase' = [at |-> "strict", i |-> 0, l |-> Len(net.redex)]
    /\ UNCHANGED <<input, output, net, stats, back, warp, prev, next, NetRest>>

\* one iteration of the for loop; at the end of a pass the while loop is tested
StrictRewrite ==
    /\ phase.at = "strict" /\ phase.i < phase.l
    /\ stats.rewrites < MaxRewrites
    /\ LET set(N) ==
              /\ net' = N
              /\ IF N.thrown # ""
                 THEN /\ phase' = Stage("threw")
                      /\ output' = [thrown |-> N.thrown]
                      /\ stats' = stats
                 ELSE /\ output' = output
                      /\ IF phase.i + 1 < phase.l
                         THEN /\ phase' = [phase EXCEPT !.i = @ + 1]
                              /\ stats' = [stats EXCEPT
                                             !.max_len = max(@, Len(N.nodes) \div 4),
                                             !.rewrites = @ + 1]
                         ELSE /\ phase' = [at |-> "strict", i |-> 0, l |-> Len(N.redex)]
                              /\ stats' = [stats EXCEPT
                                             !.max_len = max(@, Len(N.nodes) \div 4),
                                             !.rewrites = @ + 1, !.loops = @ + 1]
       IN  set(rewrite([net EXCEPT !.redex = pop(@)], top(net.redex)))
    /\ UNCHANGED <<input, back, warp, prev, next, NetRest>>

StrictReturn ==
    /\ phase.at = "strict" /\ phase.l = 0
    /\ phase' = Stage("reduced")
    /\ UNCHANGED <<input, output, net, stats, back, warp, prev, next, NetRest>>

LazyStart ==
    /\ phase = Stage("compiled") /\ input.lazy
    /\ net' = [net EXCEPT !.find_redex = FALSE]
    /\ warp' = <<>> /\ back' = <<>>
    /\ prev' = Pointer(0, 1)
    /\ next' = enter_port(net, Pointer(0, 1))
    /\ phase' = Stage("lazy")
    /\ UNCHANGED <<input, output, stats, NetRest>>

\* the walk is back at the root or at a freed node
LazyAtEnd == type_of(next) = PTR /\ (addr_of_1(next) = 0 \/ is_free(net, addr_of_1(next)))
LazyIsRedex == slot_of(prev) = 0 /\ (type_of(next) = NUM \/ slot_of(next) = 0)
LazyLoop(cond) ==
    /\ phase = Stage("lazy") /\ stats.loops < MaxLoops
    /\ cond
    /\ stats' = [stats EXCEPT !.loops = @ + 1]

LazyWarp ==
    /\ LazyLoop(LazyAtEnd /\ Len(warp) > 0)
    /\ prev' = top(warp)
    /\ next' = enter_port(net, top(warp))
    /\ warp' = pop(warp)
    /\ UNCHANGED <<phase, input, output, net, back, NetRest>>

LazyReturn ==
    /\ LazyLoop(LazyAtEnd /\ Len(warp) = 0)
    /\ net' = [net EXCEPT !.find_redex = TRUE]
    /\ phase' = Stage("reduced")
    /\ UNCHANGED <<input, output, back, warp, prev, next, NetRest>>

\* do { prev = back.pop(); } while (type_of(prev) !== PTR): the stack that is left
RECURSIVE lazy_back(_)
lazy_back(b) ==
    IF Len(b) = 0 THEN b ELSE IF type_of(top(b)) = PTR THEN b ELSE lazy_back(pop(b))

LazyRewrite ==
    /\ phase = Stage("lazy") /\ stats.loops < MaxLoops
    /\ ~LazyAtEnd /\ LazyIsRedex
    /\ LET b == lazy_back(back)
           set(N) ==
              /\ net' = [N EXCEPT !.thrown = ""]
              /\ IF N.thrown # ""
                 THEN \* catch (e) { return; }
                      /\ phase' = Stage("reduced")
                      /\ stats' = [stats EXCEPT !.loops = @ + 1]
                      /\ UNCHANGED <<output, back, prev, next>>
                 ELSE /\ stats' = [stats EXCEPT !.loops = @ + 1, !.rewrites = @ + 1,
                                                !.max_len = max(@, Len(N.nodes) \div 4)]
                      /\ IF Len(b) = 0
                         THEN \* back.pop() gave undefined
                              /\ phase' = Stage("threw")
                              /\ output' = [thrown |-> "TypeError"]
                              /\ back' = <<>>
                              /\ UNCHANGED <<prev, next>>
                         ELSE /\ prev' = top(b)
                              /\ next' = enter_port(N, top(b))
                              /\ back' = pop(b)
                              /\ UNCHANGED <<phase, output>>
       IN  set(rewrite(net, addr_of_1(prev)))
    /\ UNCHANGED <<input, warp, NetRest>>

LazySwap ==
    /\ LazyLoop(~LazyAtEnd /\ ~LazyIsRedex /\ type_of(next) = NUM)
    /\ prev' = next
    /\ next' = prev
    /\ UNCHANGED <<phase, input, output, net, back, warp, NetRest>>

LazyEnter ==
    /\ LazyLoop(~LazyAtEnd /\ ~LazyIsRedex /\ type_of(next) = PTR /\ slot_of(next) = 0)
    /\ warp' = IF node_type_of(net, addr_of_1(next)) # OP1
               THEN Append(warp, Pointer(addr_of_1(next), 1)) ELSE warp
    /\ prev' = Pointer(addr_of_1(next), 2)
    /\ next' = enter_port(net, Pointer(addr_of_1(next), 2))
    /\ UNCHANGED <<phase, input, output, net, back, NetRest>>

LazyBack ==
    /\ LazyLoop(~LazyAtEnd /\ ~LazyIsRedex /\ type_of(next) = PTR /\ slot_of(next) # 0)
    /\ back' = Append(back, prev)
    /\ prev' = Pointer(addr_of_1(next), 0)
    /\ next' = enter_port(net, Pointer(addr_of_1(next), 0))
    /\ UNCHANGED <<phase, input, output, net, warp, NetRest>>

NetDecompile ==
    /\ phase = Stage("reduced")
    /\ output' = net_decompile(net)
    /\ phase' = IF "thrown" \in DOMAIN output' THEN Stage("threw") ELSE Stage("decompiled")
    /\ UNCHANGED <<input, net, stats, back, warp, prev, next, NetRest>>

(***************************************************************************)
(* SpecNet: compile a closed term to a net, reduce it with the strict or   *)
(* the lazy scheduler, decompile.                                          *)
(***************************************************************************)
MaxDups == 2
\* a sample of 1..2^24, the range of Math.floor(Math.random()*(2**24)) + 1
DupKinds == {1, 2, KIND_REF, 2 ^ 16}

TermTwo ==
    Lam("f", NullT, Lam("x", NullT, App(Var(1), App(Var(1), Var(0), FALSE), FALSE), FALSE), FALSE)

NetLibrary == DefsOf(GraphLibrary)

LambdaTerms ==
    { TermI, TermK, TermW, TermTwo,
      App(TermI, TermI, FALSE), App(TermK, TermI, FALSE), App(TermW, TermI, FALSE),
      App(App(TermK, TermI, FALSE), TermW, FALSE),
      App(TermTwo, TermI, FALSE), App(TermTwo, TermTwo, FALSE), App(TermW, TermTwo, FALSE),
      App(TermW, TermK, FALSE),
      Ref("id", FALSE), App(Ref("id", FALSE), TermI, FALSE),
      App(Ref("id", FALSE), Ref("id", FALSE), FALSE),
      App(Ref("k", FALSE), Ref("id", FALSE), FALSE),
      App(Ref("w", FALSE), Ref("id", FALSE), FALSE),
      App(App(Ref("pair", FALSE), Ref("id", FALSE), FALSE), Ref("k", FALSE), FALSE),
      App(TermW, Ref("id", FALSE), FALSE),
      App(TermTwo, Ref("id", FALSE), FALSE) }

NumberTerms ==
    { Val(5), Op2(".+.", Val(1), Val(2)), Op1(".-.", Val(5), Val(2)),
      App(TermI, Val(5), FALSE), App(Ref("id", FALSE), Val(5), FALSE),
      Ite(Val(1), Val(7), Val(8)), Ite(Val(0), Val(7), Val(8)),
      Ite(Op2(".-.", Val(0), Val(1)), Val(7), Val(8)),
      Ite(Val(1), TermI, TermK),
      Lam("x", NullT, Ite(Var(0), Val(1), Val(2)), FALSE),
      Lam("x", NullT, Ite(Val(1), Var(0), Var(0)), FALSE),
      Lam("x", NullT, Op1(".+.", Var(0), Val(1)), FALSE),
      Lam("x", NullT, Op2(".+.", Var(0), Val(1)), FALSE),
      App(Lam("x", NullT, Op2(".+.", Var(0), Var(0)), FALSE), Val(3), FALSE),
      App(Lam("x", NullT, Op2(".*.", Var(0), Val(2)), FALSE), Op2(".+.", Val(1), Val(2)), FALSE),
      App(TermTwo, Lam("x", NullT, Op2(".+.", Var(0), Val(1)), FALSE), FALSE),
      Ref("five", FALSE) }

NetInputs ==
    {[term |-> t, defs |-> NetLibrary, lazy |-> z] :
        t \in LambdaTerms \cup NumberTerms, z \in BOOLEAN}

NetInit ==
    /\ phase = Stage("source")
    /\ input \in NetInputs
    /\ output = Idle
    /\ net = NetNew
    /\ stats = Idle
    /\ back = <<>> /\ warp = <<>> /\ prev = Idle /\ next = Idle
    /\ mem = <<>> /\ root = 0 /\ collect_length = 0 /\ holes = NoHoles /\ defs = <<>>

NetNext ==
    \/ \E labels \in [1..MaxDups -> DupKinds] : NetCompile(labels)
    \/ StrictStart
    \/ StrictRewrite
    \/ StrictReturn
    \/ LazyStart
    \/ LazyWarp
    \/ LazyReturn
    \/ LazyRewrite
    \/ LazySwap
    \/ LazyEnter
    \/ LazyBack
    \/ NetDecompile

SpecNet == NetInit /\ [][NetNext]_vars

\* what the term reducer gives for the term of the running scenario
NetNormal == normal(erase(input.term), input.defs)

NetAgrees == phase = Stage("decompiled") => Nameless(output) = Nameless(NetNormal)

\* compile, a scheduler or decompile ended with an exception
NetThrew == phase = Stage("threw")

\* C2: for every closed, terminating, erased term, decompiling the compiled net
\* after reduce_strict, and likewise after reduce_lazy, yields the normal form
\* the term reducer gives for the erased term, up to bound-variable names; no
\* stage of either pipeline ends with an exception.
C2_NetAgrees == NetAgrees /\ ~NetThrew

(***************************************************************************)
(* SpecLaws: the algebraic laws of the kernel.  A scenario names one law   *)
(* and its arguments; the action of the law applies the functions of the   *)
(* kernel to them and leaves what they return in output.                   *)
(***************************************************************************)
LawRest == <<root, back, collect_length, stats, holes, net, warp, prev, next>>

\* closed terms of Var, Lam and App: binders used never, once and twice
RoundAtoms == {TermI, TermK, TermW, TermPair, TermTwo}
RoundTerms ==
    RoundAtoms
        \cup {App(f, a, FALSE) : f \in RoundAtoms, a \in RoundAtoms}
        \cup {Lam("z", NullT, App(Var(0), a, FALSE), FALSE) : a \in RoundAtoms}
        \cup {Lam("z", NullT, App(a, Var(0), FALSE), FALSE) : a \in RoundAtoms}

RoundInputs == {[fn |-> "round_trip", term |-> t] : t \in RoundTerms}

\* decompile(compile({main: term}).rt_defs[0])
RoundTrip ==
    /\ phase = "ready" /\ input.fn = "round_trip"
    /\ defs' = rt_compile(<<[name |-> "main", term |-> input.term]>>)
    /\ LET set(r) == output' = r.term /\ mem' = r.mem
       IN  set(rt_decompile(defs'[1].mem, defs'[1].ptr, 0))
    /\ phase' = "done"
    /\ UNCHANGED <<input, LawRest>>

\* the terms that hold t as one child of one constructor, for every child of
\* every constructor
Wraps(t) ==
    { All("x", t, Typ, FALSE), All("x", Typ, t, TRUE),
      Lam("y", NullT, t, FALSE), Lam("y", t, Var(0), FALSE), Lam("y", Typ, t, TRUE),
      App(t, Val(1), FALSE), App(Var(0), t, FALSE), App(Num, t, TRUE),
      Slf("s", t),
      New(t, Val(1)), New(Typ, t), Use(t),
      Ann(t, Val(1), FALSE), Ann(Typ, t, TRUE),
      Log(t, Val(1)), Log(Val(1), t),
      Op1(".+.", t, Val(1)), Op1(".+.", Val(1), t),
      Op2(".*.", t, Val(2)), Op2(".*.", Val(2), t),
      Ite(t, Val(1), Val(0)), Ite(Val(1), t, Num), Ite(Val(0), Typ, t) }

\* the largest variable index of the atoms, the largest increment of a shift
\* and the largest cutoff of a shift or a substitution
MaxVar == 2
MaxInc == 2
MaxDepth == 2

LawAtoms ==
    {Var(i) : i \in 0..MaxVar} \cup {Typ, Num, Val(1), Hol("a"), Ref("f", FALSE)}
LawTerms1 == LawAtoms \cup UNION {Wraps(a) : a \in LawAtoms}
\* two constructors deep, around a variable
LawTerms2 == UNION {Wraps(t) : t \in Wraps(Var(1))}
LawTerms == LawTerms1 \cup LawTerms2

\* the definitions and the hole registry the reducer is given
LawDefs == [f |-> Lam("n", NullT, Op2(".+.", Var(0), Val(1)), FALSE)]
LawHoles ==
    [a |-> [value |-> App(Ref("f", FALSE), Val(2), FALSE), depth |-> 0],
     b |-> [value |-> Var(0), depth |-> 1]]

\* terms on which reduce terminates
ReduceTerms ==
    LawTerms
        \cup (RoundTerms \ {App(TermW, TermW, FALSE)})
        \cup {App(Ref("f", TRUE), a, FALSE) : a \in LawAtoms}
        \cup {Ite(c, Val(1), Hol("a")) : c \in CondTerms}
        \cup { Hol("b"), Lam("y", NullT, Hol("b"), FALSE),
               Lam("y", NullT, Lam("z", NullT, App(Hol("b"), Var(0), FALSE), FALSE), FALSE),
               App(Lam("y", NullT, Hol("b"), FALSE), Val(3), FALSE),
               Op1(".+.", Val(1), Ite(Val(1), Val(2), Val(3))),
               Op1(".+.", Val(1), App(TermI, Val(2), FALSE)),
               Op2(".+.", App(TermI, Val(2), FALSE), Var(0)),
               Use(App(TermI, New(Typ, App(TermI, Val(1), FALSE)), FALSE)),
               Lam("y", NullT, Use(New(Var(0), App(Var(0), Ref("f", TRUE), TRUE))), TRUE) }

ReduceInputs ==
    {[fn |-> "reduce", term |-> t, defs |-> LawDefs, holes |-> h] :
        t \in ReduceTerms, h \in {<<>>, LawHoles}}

EraseInputs == {[fn |-> "erase", term |-> t] : t \in LawTerms}

SubstValues == {Val(7), Var(0), Lam("w", NullT, Var(1), FALSE)}
SubstInputs ==
    {[fn |-> "subst", term |-> t, val |-> v, depth |-> d] :
        t \in LawTerms, v \in SubstValues, d \in 0..MaxDepth}

ShiftInputs ==
    {[fn |-> "shift", term |-> t, a |-> a, b |-> b, depth |-> d] :
        t \in LawTerms, a \in 0..MaxInc, b \in 0..MaxInc, d \in 0..MaxDepth}

\* once == reduce(term, defs, {holes}); reduce(once, defs, {holes})
ReduceTwice ==
    /\ phase = "ready" /\ input.fn = "reduce"
    /\ LET o == ReduceOpts(input.defs, FALSE, input.holes, 0)
           set(once) == output' = [once |-> once, twice |-> reduce(once, o)]
       IN  set(reduce(input.term, o))
    /\ phase' = "done"
    /\ UNCHANGED <<input, mem, defs, LawRest>>

\* once == erase(term); erase(once)
EraseTwice ==
    /\ phase = "ready" /\ input.fn = "erase"
    /\ LET set(once) == output' = [once |-> once, twice |-> erase(once)]
       IN  set(erase(input.term))
    /\ phase' = "done"
    /\ UNCHANGED <<input, mem, defs, LawRest>>

\* subst(shift(term, 1, depth), val, depth)
SubstShift ==
    /\ phase = "ready" /\ input.fn = "subst"
    /\ output' = subst(shift(input.term, 1, input.depth), input.val, input.depth)
    /\ phase' = "done"
    /\ UNCHANGED <<input, mem, defs, LawRest>>

\* shift(shift(term, a, depth), b, depth) and shift(term, a + b, depth)
ShiftShift ==
    /\ phase = "ready" /\ input.fn = "shift"
    /\ output' = [twice |-> shift(shift(input.term, input.a, input.depth), input.b, input.depth),
                  once |-> shift(input.term, input.a + input.b, input.depth)]
    /\ phase' = "done"
    /\ UNCHANGED <<input, mem, defs, LawRest>>

\* t under three binders, which close its variables
Closed(t, e) == Lam("x", Typ, All("y", Num, Slf("s", t), e), e)

\* a record with a source location attached
Located(r) == [k \in DOMAIN r \cup {"loc"} |-> IF k = "loc" THEN <<3, 14>> ELSE r[k]]

\* t with every binder renamed and every node given a source location
RECURSIVE Variant(_)
Variant(t) ==
    CASE t.tag = "null" -> t
      [] t.tag \in {"All", "Lam"} ->
            Located([t EXCEPT !.name = @ \o "'", !.bind = Variant(@), !.body = Variant(@)])
      [] t.tag = "Slf" -> Located([t EXCEPT !.name = @ \o "'", !.type = Variant(@)])
      [] t.tag = "App" -> Located([t EXCEPT !.func = Variant(@), !.argm = Variant(@)])
      [] t.tag \in {"Op1", "Op2"} ->
            Located([t EXCEPT !.num0 = Variant(@), !.num1 = Variant(@)])
      [] t.tag = "Ite" ->
            Located([t EXCEPT !.cond = Variant(@), !.if_t = Variant(@), !.if_f = Variant(@)])
      [] t.tag \in {"New", "Ann"} -> Located([t EXCEPT !.type = Variant(@), !.expr = Variant(@)])
      [] t.tag = "Use" -> Located([t EXCEPT !.expr = Variant(@)])
      [] t.tag = "Log" -> Located([t EXCEPT !.msge = Variant(@), !.expr = Variant(@)])
      [] OTHER -> Located(t)

HashInputs ==
    {[fn |-> "hash", a |-> Closed(t, e), b |-> Variant(Closed(t, e))] :
        t \in LawTerms1, e \in BOOLEAN}

\* the memo fields term[2] of two terms
HashTerms ==
    /\ phase = "ready" /\ input.fn = "hash"
    /\ output' = [a |-> Hash(input.a), b |-> Hash(input.b)]
    /\ phase' = "done"
    /\ UNCHANGED <<input, mem, defs, LawRest>>

\* conditionals whose condition is a variable
NeutralItes ==
    {Ite(c, t, f) : c \in {Var(0), Var(1)}, t \in {Val(0), Val(1), Typ},
                    f \in {Val(0), Val(1), Typ}}
IteInputPairs ==
    {[fn |-> "equal_ite", a |-> a, b |-> b, depth |-> MaxVar] :
        a \in NeutralItes, b \in NeutralItes}

\* equal(a, b, depth, {}, {holes: {}}) on two conditionals
EqualItes ==
    /\ phase = "ready" /\ input.fn = "equal_ite"
    /\ output' = [v |-> equal(input.a, input.b, input.depth, <<>>, NoHoles).v]
    /\ phase' = "done"
    /\ UNCHANGED <<input, mem, defs, LawRest>>

\* operands: a word is [s, wide], the number s or the unsigned word 2^32 + s
Word(w) == IF w.wide THEN Wide(w.s) ELSE w.s
SmallWords == {[s |-> n, wide |-> FALSE] : n \in 0..MaxWord}
WideWords ==
    { [s |-> 2147483647, wide |-> FALSE], [s |-> -2147483647 - 1, wide |-> TRUE],
      [s |-> -2147483647, wide |-> TRUE], [s |-> -1, wide |-> TRUE] }

\* every operator on small words whose result is an integer; & | ^ on words
\* with and without bit 31 as well
ArithInputs ==
    {i \in [fn : {"net_op2"}, func : {OpTable[k] : k \in 1..Len(OpTable)},
            a : SmallWords, b : SmallWords] :
        i.func \in {"./.", ".%."} => (i.b.s # 0 /\ (i.func = "./." => i.a.s % i.b.s = 0))}
      \cup [fn : {"net_op2"}, func : {".&.", ".|.", ".^."},
            a : SmallWords \cup WideWords, b : WideWords]

\* net = compile(Op2(func, Val a, Val b), defs); net.reduce_strict(stats), which
\* takes two passes of one rewrite each; decompile(net); next to it the normal
\* form of the term reducer
NetArith ==
    /\ phase = "ready" /\ input.fn = "net_op2"
    /\ LET term == Op2(input.func, Val(Word(input.a)), Val(Word(input.b)))
           pass(N) == rewrite([N EXCEPT !.redex = pop(@)], top(N.redex))
           rule(N) == node_type_of(N, top(N.redex))
           strict(N0, N1, N2) ==
               output' = [rules |-> <<rule(N0), rule(N1)>>, redex |-> N2.redex,
                          thrown |-> N2.thrown,
                          net |-> net_decompile(N2),
                          term |-> normal(erase(term), LawDefs)]
           second(N0, N1) == strict(N0, N1, pass(N1))
           first(N0) == second(N0, pass(N0))
       IN  first(net_compile(erase(term), LawDefs, <<>>).net)
    /\ phase' = "done"
    /\ UNCHANGED <<input, mem, defs, LawRest>>

\* the addresses of the nodes of a net
NodeAddrs(N) == 0..((Len(N.nodes) \div 4) - 1)

\* conditionals on a number: at the root, applied, and under a binder whose
\* variable is one of the branches
NetIteBranches == {Val(7), Val(8), TermI, TermK}
NetIteTerms ==
    LET ites(B) == {Ite(Val(c), t, f) : c \in (0..MaxWord) \cup {-1}, t \in B, f \in B}
    IN  ites(NetIteBranches)
          \cup {App(i, Val(5), FALSE) : i \in ites({TermI, TermK})}
          \cup {Lam("x", NullT, i, FALSE) :
                  i \in ites({Var(0), Val(7), TermI}) \ ites({Val(7), TermI})}
NetIteInputs == {[fn |-> "net_ite", term |-> t] : t \in NetIteTerms}

\* net = compile(term, defs); net.rewrite(a) twice, a the ITE node: the
\* IfThenElse rule and the annihilation with the pair node.  dest is the port
\* the result port of the ITE is linked to, if_t and if_f what the ports of the
\* pair node hold, all three read before the rewrites.
NetIte ==
    /\ phase = "ready" /\ input.fn = "net_ite"
    /\ LET rules(N0, a, N1, N2) ==
               LET par == addr_of_1(enter_port(N0, Pointer(a, 1)))
               IN  output' = [numb |-> numb_of(get_port(N0, a, 0)),
                              ite |-> a, pair |-> par,
                              dest |-> enter_port(N0, Pointer(a, 2)),
                              if_t |-> enter_port(N0, Pointer(par, 1)),
                              if_f |-> enter_port(N0, Pointer(par, 2)),
                              kinds |-> <<node_type_of(N1, a), kind_of(N1, a),
                                          node_type_of(N1, par), kind_of(N1, par)>>,
                              net |-> N2]
           second(N0, a, N1) == rules(N0, a, N1, rewrite(N1, a))
           first(N0, a) == second(N0, a, rewrite(N0, a))
           compiled(N0) == first(N0, CHOOSE a \in NodeAddrs(N0) : node_type_of(N0, a) = ITE)
       IN  compiled(net_compile(erase(input.term), LawDefs, <<1, 2>>).net)
    /\ phase' = "done"
    /\ UNCHANGED <<input, mem, defs, LawRest>>

\* the operators reduce.op1 knows
PrimOps ==
    {".+.", ".-.", ".*.", "./.", ".%.", ".**.", ".&.", ".|.", ".^.", ".~.", ".>>>.", ".<<.",
     ".>.", ".<.", ".==."}

\* the field term[2] a constructor stores: the memo, or null (<<>>) when MEMO is false
Ctr_memo(MEMO, memo) == IF MEMO THEN <<memo>> ELSE <<>>

\* op1 takes the default case of its switch and throws
op1_throws(func, num0, num1) == num0.tag = "Val" /\ num1.tag = "Val" /\ func \notin PrimOps

\* an operation on two numbers, at the top of the term or under binders
MemoOps ==
    {Op1(f, Val(1), Val(2)) : f \in {".+.", ".?."}}
        \cup {Op2(f, Val(1), Val(2)) : f \in {".+.", ".?."}}
MemoTerms ==
    MemoOps \cup {Lam("x", NullT, t, FALSE) : t \in MemoOps}
            \cup {Lam("x", NullT, Lam("y", NullT, t, FALSE), FALSE) : t \in MemoOps}
            \cup {Val(5), TermI}

\* the body of a lambda is reduced when quote calls its closure
RECURSIVE quote_throws(_)
quote_throws(t) ==
    \/ t.tag = "Lam" /\ quote_throws(t.body)
    \/ t.tag \in {"Op1", "Op2"} /\ op1_throws(t.func, t.num0, t.num1)

\* reduce(term, {}) on a term of MemoTerms: the value of MEMO when the call is
\* left and whether it was left by an exception; quote runs after MEMO = true
reduce_MEMO(term) ==
    LET early == term.tag \in {"Op1", "Op2"} /\ op1_throws(term.func, term.num0, term.num1)
    IN  [MEMO |-> ~early, thrown |-> early \/ quote_throws(term)]

MemoSides == {Val(1), Val(2), TermI, TermK, Typ}
MemoInputs ==
    {[fn |-> "memo", term |-> t, a |-> a, b |-> b] :
        t \in MemoTerms, a \in MemoSides, b \in MemoSides}

\* reduce(term, {}), caught by the caller when it throws, and then
\* equal(a, b, 0, {}): Eqs(erase(a), erase(b), 0) is built with the MEMO the
\* first call left, and the first test of step compares the two memo fields
MemoEqual ==
    /\ phase = "ready" /\ input.fn = "memo"
    /\ LET r == reduce_MEMO(input.term)
           am == Ctr_memo(r.MEMO, Hash(erase(input.a)))
           bm == Ctr_memo(r.MEMO, Hash(erase(input.b)))
       IN  output' = [MEMO |-> r.MEMO, thrown |-> r.thrown, a |-> am, b |-> bm,
                      equal |-> IF am = bm THEN TRUE
                                ELSE equal(input.a, input.b, 0, <<>>, NoHoles).v]
    /\ phase' = "done"
    /\ UNCHANGED <<input, mem, defs, LawRest>>

LawInputs ==
    MemoInputs \cup NetIteInputs \cup RoundInputs \cup ReduceInputs \cup EraseInputs \cup SubstInputs \cup ShiftInputs
        \cup HashInputs \cup IteInputPairs \cup ArithInputs

LawInit ==
    /\ phase = "ready"
    /\ input \in LawInputs
    /\ output = Idle
    /\ mem = <<>> /\ root = 0 /\ back = <<>> /\ collect_length = 0 /\ stats = Idle
    /\ holes = NoHoles /\ defs = <<>> /\ net = Idle /\ warp = <<>> /\ prev = Idle /\ next = Idle

LawNext ==
    \/ RoundTrip
    \/ ReduceTwice
    \/ EraseTwice
    \/ SubstShift
    \/ ShiftShift
    \/ HashTerms
    \/ EqualItes
    \/ NetArith
    \/ NetIte
    \/ MemoEqual

SpecLaws == LawInit /\ [][LawNext]_vars

\* C11: for every closed term of Var, Lam and App, whatever the number of
\* occurrences of each bound variable, decompile(compile(t)) is erase(t) up to
\* the names of bound variables.
C11_RoundTrip ==
    (phase = "done" /\ input.fn = "round_trip")
        => Nameless(output) = Nameless(erase(input.term))

\* C12: for every term on which reduce terminates, with every reduction class
\* enabled and weak = false, reducing the result of reduce again gives the same
\* term.
C12_Idempotent ==
    (phase = "done" /\ input.fn = "reduce") => output.twice = output.once

\* a term that reduce rewrote, with the registry of holes in use
C12_Witness ==
    /\ phase = "done" /\ input.fn = "reduce"
    /\ input.holes # <<>>
    /\ output.once # input.term
    /\ output.twice = output.once

\* t holds no erased Lam, no erased App and no New, Use or Ann, at any depth
RECURSIVE Relevant(_)
Relevant(t) ==
    CASE t.tag \in {"All", "Lam"} ->
            /\ t.tag = "Lam" => ~t.eras
            /\ Relevant(t.bind) /\ Relevant(t.body)
      [] t.tag = "App" -> ~t.eras /\ Relevant(t.func) /\ Relevant(t.argm)
      [] t.tag \in {"New", "Use", "Ann"} -> FALSE
      [] t.tag = "Slf" -> Relevant(t.type)
      [] t.tag \in {"Op1", "Op2"} -> Relevant(t.num0) /\ Relevant(t.num1)
      [] t.tag = "Ite" -> Relevant(t.cond) /\ Relevant(t.if_t) /\ Relevant(t.if_f)
      [] t.tag = "Log" -> Relevant(t.msge) /\ Relevant(t.expr)
      [] OTHER -> TRUE

\* C13: for every term t, erase(erase(t)) = erase(t), and erase(t) holds no
\* erased Lam, no erased App and no New, Use or Ann node at any depth.
C13_EraseIdempotent ==
    (phase = "done" /\ input.fn = "erase")
        => output.twice = output.once /\ Relevant(output.once)

\* erase removed an erased binder whose body held a node to erase
C13_Witness ==
    /\ phase = "done" /\ input.fn = "erase"
    /\ input.term.tag = "Lam" /\ input.term.eras /\ ~Relevant(input.term.body)
    /\ output.twice = output.once /\ Relevant(output.once)

\* C14: for every term t, value v and depth d, subst(shift(t, 1, d), v, d) = t.
C14_SubstShift ==
    (phase = "done" /\ input.fn = "subst") => output = input.term

\* a binder above a variable that the shift moved and subst moved back
C14_Witness ==
    /\ phase = "done" /\ input.fn = "subst"
    /\ input.term.tag = "Lam" /\ input.depth = 0 /\ input.val.tag = "Lam"
    /\ shift(input.term, 1, input.depth) # input.term
    /\ output = input.term

\* C15: for every term t, cutoff d and natural numbers a and b,
\* shift(shift(t, a, d), b, d) = shift(t, a + b, d).
C15_ShiftAdds ==
    (phase = "done" /\ input.fn = "shift") => output.twice = output.once

\* two proper shifts of a term with variables on both sides of the cutoff
C15_Witness ==
    /\ phase = "done" /\ input.fn = "shift"
    /\ input.a > 0 /\ input.b > 0 /\ input.depth > 0
    /\ input.term.tag = "App"
    /\ output.once # input.term
    /\ output.twice = output.once

\* C16: two closed terms built by the term constructors that differ only in
\* the names of their binders and in their source locations carry the same
\* structural hash.
C16_HashAlpha ==
    (phase = "done" /\ input.fn = "hash") => output.a = output.b

\* two such terms that differ, hashed to the same string
C16_Witness ==
    /\ phase = "done" /\ input.fn = "hash"
    /\ input.a # input.b
    /\ input.a.name # input.b.name
    /\ input.a.body.body.type.tag = "Lam"
    /\ output.a = output.b

\* the hole h holds an assigned value in the registry R
Assigned(R, h) == h \in DOMAIN R.holes /\ R.holes[h].value \notin {Undef, NullT}

\* equal(Hol h, e) is called while h holds a value that e is not equal to
ConflictCall(h, e) ==
    /\ Assigned(holes, h)
    /\ holes.holes[h].value # e
    /\ ~equal(holes.holes[h].value, e, 0, <<>>, [holes EXCEPT !.writes = <<>>]).v
    /\ EqualCall(Hol(h), e)

\* C17: when equal meets an obligation between a registered hole that holds an
\* assigned value v and a term e that is not equal to v, the value of the hole
\* is set to null and the call still answers true.
C17_Conflict ==
    [][ \A h \in HoleNames, e \in EqGround :
            ConflictCall(h, e) => holes'.holes[h].value = NullT /\ output'.v ]_vars

\* equal(a, b, depth) without holes and definitions
Same(a, b, depth) == equal(a, b, depth, <<>>, NoHoles).v

\* C18: for two Ite terms with neutral conditions that are not identical by
\* hash, equal answers true only if the conditions, the then-branches and the
\* else-branches are pairwise equal.
C18_IteBranches ==
    (phase = "done" /\ input.fn = "equal_ite" /\ Hash(input.a) # Hash(input.b) /\ output.v)
        => /\ Same(input.a.cond, input.b.cond, input.depth)
           /\ Same(input.a.if_t, input.b.if_t, input.depth)
           /\ Same(input.a.if_f, input.b.if_f, input.depth)


(***************************************************************************)
(* Erased variables (typecheck, case Var) and the caches of case Ref.      *)
(***************************************************************************)
\* term has an occurrence of a variable whose binder is erased in a relevant
\* position: outside every All, Lam binder, type of a Slf, New or Ann, message
\* of a Log and argument of an erased application. frames holds the erased
\* flags of the enclosing Lam binders, innermost first.
RECURSIVE RelevantUse(_, _)
RelevantUse(term, frames) ==
    CASE term.tag = "Var" -> term.index < Len(frames) /\ frames[term.index + 1]
      [] term.tag = "Lam" -> RelevantUse(term.body, <<term.eras>> \o frames)
      [] term.tag = "App" -> \/ RelevantUse(term.func, frames)
                             \/ ~term.eras /\ RelevantUse(term.argm, frames)
      [] term.tag \in {"New", "Use", "Ann", "Log"} -> RelevantUse(term.expr, frames)
      [] term.tag \in {"Op1", "Op2"} -> \/ RelevantUse(term.num0, frames)
                                        \/ RelevantUse(term.num1, frames)
      [] term.tag = "Ite" -> \/ RelevantUse(term.cond, frames)
                             \/ RelevantUse(term.if_t, frames)
                             \/ RelevantUse(term.if_f, frames)
      [] OTHER -> FALSE

\* C19: when typecheck(name) succeeds, no definition the session accepted (name
\* and every definition whose type it cached) has an occurrence of an erased
\* variable in a relevant position; such an occurrence raises the erased-use
\* error.
C19_ErasedUse ==
    (phase = "caller" /\ output # Idle /\ output.fn = "typecheck" /\ output.ok)
        => \A i \in DOMAIN output.cached :
              ~RelevantUse(defs[output.cached[i]], <<>>)

\* C20: in one typecheck session types[name] is written, and defs[name]
\* replaced, at most once for every name, however many Refs name it and also
\* when the definition refers to itself; a Ref to a name whose type is set
\* returns that type and leaves the session as it is.
C20_WriteOnce ==
    (phase = "caller" /\ output # Idle /\ output.fn = "typecheck")
        => LET T == output.session
           IN  /\ \A i \in DOMAIN T.cached, j \in DOMAIN T.cached :
                     T.cached[i] = T.cached[j] => i = j
               /\ \A n \in DOMAIN T.gen : T.gen[n] <= 1
               /\ \A n \in DOMAIN T.types :
                     typecheck_term(Ref(n, FALSE), NullT, ctx_new, FALSE, NoLoc, T)
                        = Ok(T.types[n], T)

\* a session that succeeded on a definition with two Refs to itself, and cached
\* its type
C20_Witness ==
    /\ phase = "caller" /\ output # Idle /\ output.fn = "typecheck" /\ output.ok
    /\ output.name = "f" /\ defs.f.tag = "Ann"
    /\ defs.f.expr = Op2(".+.", Ref("f", FALSE), Ref("f", FALSE))
    /\ output.session.gen.f = 1 /\ "f" \in DOMAIN output.session.types


(***************************************************************************)
(* Collection and the definition table of the graph runtime.               *)
(***************************************************************************)
\* what decompile gives for the term at ptr in m, up to bound-variable names
rt_view(m, ptr) == Nameless(rt_decompile(m, ptr, 0).term)

\* C21: for every memory and root reached during reduce, the term collect
\* returns decompiles to the same term as the memory and root it was given.
C21_CollectTransparent ==
    Reducing => LET c == rt_collect(mem, root)
                IN  rt_view(c.mem, c.ptr) = rt_view(mem, root)


\* C28: after reduce(rt_term, rt_defs) returned, every entry of rt_defs has
\* the mem and the ptr compile gave it, also the entry that is rt_term.
C28_DefsUntouched ==
    phase = "reduced"
        => \A i \in DOMAIN defs :
              /\ defs[i].mem = rt_compile(input.defs)[i].mem
              /\ defs[i].ptr = rt_compile(input.defs)[i].ptr


(***************************************************************************)
(* The net runtime: schedulers, rules, labels, links and the free list.    *)
(***************************************************************************)
Freed(N) == {N.freed[i] : i \in DOMAIN N.freed}
Allocated(N, addr) == addr \in NodeAddrs(N) /\ addr \notin Freed(N)

\* the principal port of node a holds a number, or the principal ports of a
\* and of another node point to each other
ActivePair(N, a) ==
    LET b_ptrn == get_port(N, a, 0)
        b == addr_of_1(b_ptrn)
    IN  \/ type_of(b_ptrn) = NUM
        \/ /\ slot_of(b_ptrn) = 0 /\ b # a
           /\ ptrn_eq(get_port(N, b, 0), Pointer(a, 0))

\* C22: when reduce_strict has returned, the redex list is empty and the net
\* has no active pair: no node, allocated or not, has a number on its principal
\* port or a principal port linked to the principal port of another node.
C22_StrictFixpoint ==
    (phase = Stage("reduced") /\ ~input.lazy)
        => /\ net.redex = <<>>
           /\ \A a \in NodeAddrs(net) : ~ActivePair(net, a)

\* reduce_strict returned after three passes or more over the redex list, on
\* the net of an Op2 or of an Ite
C22_Witness ==
    /\ phase = Stage("reduced") /\ ~input.lazy
    /\ stats.loops >= 3 /\ stats.rewrites >= 3
    /\ input.term.tag \in {"Op2", "Ite"}

\* two numbers are the same number
SameNumber(x, y) ==
    /\ IsWide(x) = IsWide(y)
    /\ IF IsWide(x) THEN x.wide = y.wide ELSE x = y

\* C23: for every operator of the table and all words a and b, the net compiled
\* from Op2(op, Val a, Val b) is reduced by the OP2 rule followed by the OP1
\* rule, and what is left decompiles to the number the term reducer gives for
\* the same term.
C23_NetArithmetic ==
    (phase = "done" /\ input.fn = "net_op2")
        => /\ output.rules = <<OP2, OP1>> /\ output.redex = <<>> /\ output.thrown = ""
           /\ output.net.tag = "Val" /\ output.term.tag = "Val"
           /\ SameNumber(output.net.numb, output.term.numb)

\* the port p of net N holds what ptrn is: the number, or a pointer to a port
\* that points back to p
LinkedTo(N, p, ptrn) ==
    /\ ptrn_eq(enter_port(N, p), ptrn)
    /\ type_of(ptrn) = PTR => ptrn_eq(enter_port(N, ptrn), p)

\* C24: after the IfThenElse rule and the annihilation with the pair node, the
\* port that was linked to the result of the ITE is linked to the then-branch
\* when the number is not 0 and to the else-branch when it is 0, the branch not
\* selected is disconnected, and the ITE node and the pair node are free.
C24_NetConditional ==
    (phase = "done" /\ input.fn = "net_ite")
        => LET N == output.net
               taken == IF output.numb # 0 THEN output.if_t ELSE output.if_f
               other == IF output.numb # 0 THEN output.if_f ELSE output.if_t
           IN  /\ output.kinds = <<NOD, KIND_PAR, NOD, KIND_PAR>>
               /\ N.thrown = ""
               /\ type_of(output.dest) = PTR => LinkedTo(N, output.dest, taken)
               /\ type_of(taken) = PTR => LinkedTo(N, taken, output.dest)
               /\ type_of(other) = PTR => ptrn_eq(enter_port(N, other), other)
               /\ is_free(N, output.ite) /\ is_free(N, output.pair)
               /\ output.ite \in Freed(N) /\ output.pair \in Freed(N)

\* the condition was a number other than 0 and 1, both branches were nodes
C24_Witness ==
    /\ phase = "done" /\ input.fn = "net_ite"
    /\ output.numb = -1
    /\ type_of(output.if_t) = PTR /\ type_of(output.if_f) = PTR
    /\ LinkedTo(output.net, output.dest, output.if_t)


\* the duplicators of net N: the nodes of type NOD whose kind is neither that
\* of a lambda or an application nor that of a pair
Duplicators(N) ==
    {a \in NodeAddrs(N) : /\ ~is_free(N, a) /\ node_type_of(N, a) = NOD
                          /\ kind_of(N, a) \notin {0, KIND_PAR}}

\* the variable port in front of which get_var put the duplicator at addr: its
\* principal port is linked to that port, or to port 1 of a later duplicator of
\* the same port; Undef for the duplicator of a shared reference
RECURSIVE BinderOf(_, _, _)
BinderOf(N, addr, fuel) ==
    LET p == enter_port(N, Pointer(addr, 0))
        b == addr_of_1(p)
    IN  IF type_of(p) = NUM \/ slot_of(p) # 1 \/ node_type_of(N, b) # NOD \/ fuel = 0
        THEN Undef
        ELSE IF kind_of(N, b) = 0 THEN p
        ELSE BinderOf(N, b, fuel - 1)

VarDuplicators(N) == {a \in Duplicators(N) : BinderOf(N, a, MaxDups) # Undef}

\* C25: when compile returns, the kind of every duplicator allocated for a bound
\* variable is none of the reserved kinds 0, 0xFFFD and 0xFFFF, fits 16 bits,
\* and differs from the kind of every duplicator of another binder.
C25_UniqueLabels ==
    phase = Stage("compiled")
        => \A a \in VarDuplicators(net) :
              /\ kind_of(net, a) \notin {0, KIND_REF, KIND_PAR}
              /\ kind_of(net, a) < 2 ^ 16
              /\ \A b \in VarDuplicators(net) :
                    BinderOf(net, a, MaxDups) # BinderOf(net, b, MaxDups)
                        => kind_of(net, a) # kind_of(net, b)


\* C26: after a call to reduce, also one that threw, MEMO is true, so the terms
\* built afterwards carry a memo, and equal does not answer true for two terms
\* that are not equal because both memo fields are null.
C26_MemoRestored ==
    (phase = "done" /\ input.fn = "memo")
        => /\ output.MEMO
           /\ output.a # <<>> /\ output.b # <<>>
           /\ output.equal = equal(input.a, input.b, 0, <<>>, NoHoles).v


\* C27: a call of equal that answers false leaves the value of every hole of
\* the registry as it was before the call.
C27_NoTrace ==
    [][ \A p \in EqPairs :
            (EqualCall(p[1], p[2]) /\ ~output'.v) => holes'.holes = holes.holes ]_vars


\* the port p of net N holds a number, or a pointer to a port that holds a
\* pointer back to p
PortLinked(N, p) ==
    LET q == enter_port(N, p)
    IN  type_of(q) = PTR
            => /\ addr_of_1(q) \in NodeAddrs(N)
               /\ LET back_q == enter_port(N, q)
                  IN  type_of(back_q) = PTR /\ ptrn_eq(back_q, p)

\* every port of every node that is not on the free list is linked both ways,
\* to a port of a node that is not on the free list
PairwiseLinked(N) ==
    \A a \in NodeAddrs(N) : \A slot \in 0..2 :
        Allocated(N, a)
            => /\ PortLinked(N, Pointer(a, slot))
               /\ LET q == enter_port(N, Pointer(a, slot))
                  IN  type_of(q) = PTR => addr_of_1(q) \notin Freed(N)

\* compile has returned and no rewrite is half done
BetweenRewrites == phase.at \in {"compiled", "strict", "lazy", "reduced"}

\* C29: after compilation and after every completed rewrite, every port of an
\* allocated node that holds a pointer is pointed back to by the port it points
\* to, and no port of an allocated node points into a freed node.
C29_PairwiseLinked == BetweenRewrites => PairwiseLinked(net)


\* no address is on the free list twice
FreedOnce(N) ==
    \A i \in DOMAIN N.freed : \A j \in DOMAIN N.freed : i # j => N.freed[i] # N.freed[j]

\* C30: during reduce_strict and reduce_lazy the free list holds no address
\* twice and only addresses of nodes that are not in use, and the address
\* reduce_strict is about to pop from the redex list is that of an allocated node.
C30_FreeList ==
    phase.at \in {"strict", "lazy"}
        => /\ FreedOnce(net)
           /\ \A a \in Freed(net) : a \in NodeAddrs(net) /\ is_free(net, a)
           /\ (phase.at = "strict" /\ phase.i < phase.l) => Allocated(net, top(net.redex))

====
